---- MODULE Spec2Model ----
(***************************************************************************)
(* UFFA: the femtoscopic correlation pipeline (CorrelationHandler), the    *)
(* histogram helpers it calls (CorrelationUtils, HistUtils) and the        *)
(* sequential configuration sweep that feeds it.                           *)
(*                                                                         *)
(* Numbers are exact rationals <<num, den>>; a histogram is a record of    *)
(* its class, its axes and its bin contents/variances over all cells       *)
(* (underflow 0 and overflow n+1 included), as ROOT stores it.             *)
(***************************************************************************)
EXTENDS Integers, Sequences, FiniteSets, TLC

(***************************************************************************)
(* Exact rational arithmetic                                               *)
(***************************************************************************)
Abs(i) == IF i < 0 THEN -i ELSE i

RECURSIVE GCD(_, _)
GCD(a, b) == IF b = 0 THEN a ELSE GCD(b, a % b)

\* n/d cancelled by the common divisor g, the denominator made positive
Cancelled(n, d, g) ==
    IF d < 0 THEN <<(-n) \div g, (-d) \div g>> ELSE <<n \div g, d \div g>>

RN(n, d) == Cancelled(n, d, GCD(Abs(n), Abs(d)))

RI(i) == <<i, 1>>
R0 == RI(0)
R1 == RI(1)
\* sums over the least common denominator, products cancelled crosswise first
RAddOver(a, b, g) ==
    RN(a[1] * (b[2] \div g) + b[1] * (a[2] \div g), (a[2] \div g) * b[2])
RAdd(a, b) == RAddOver(a, b, GCD(a[2], b[2]))
RNeg(a) == <<-a[1], a[2]>>
RSub(a, b) == RAdd(a, RNeg(b))
RTimes(x, y) == IF x[1] = 0 \/ y[1] = 0 THEN R0 ELSE <<x[1] * y[1], x[2] * y[2]>>
RMul(a, b) == RTimes(RN(a[1], b[2]), RN(b[1], a[2]))
RDiv(a, b) == RMul(a, RN(b[2], b[1]))
\* product with, and quotient by, an integer
RTimesInt(a, k) == RN(a[1] * k, a[2])
ROverInt(a, k) == RN(a[1], a[2] * k)
RLt(a, b) == a[1] * b[2] < b[1] * a[2]
RLe(a, b) == a[1] * b[2] <= b[1] * a[2]
RAbs(a) == <<Abs(a[1]), a[2]>>
RFloor(a) == a[1] \div a[2]
RSq(a) == <<a[1] * a[1], a[2] * a[2]>>

RECURSIVE RSum(_, _, _)
RSum(f, lo, hi) == IF hi < lo THEN R0 ELSE RAdd(f[lo], RSum(f, lo + 1, hi))

RECURSIVE RSumSet(_, _)
RSumSet(f, S) ==
    IF S = {} THEN R0
    ELSE LET s == CHOOSE x \in S : TRUE IN RAdd(f[s], RSumSet(f, S \ {s}))

Max(a, b) == IF a < b THEN b ELSE a
Min(a, b) == IF a < b THEN a ELSE b

(***************************************************************************)
(* ROOT axes (TAxis, fixed bin width)                                      *)
(***************************************************************************)
MkAxis(n, xmin, xmax) ==
    [n |-> n, xmin |-> xmin, xmax |-> xmax, first |-> 1, last |-> n, range |-> FALSE]

BinWidth(ax) == ROverInt(RSub(ax.xmax, ax.xmin), ax.n)
GetBinLowEdge(ax, b) == RAdd(ax.xmin, RTimesInt(BinWidth(ax), b - 1))
GetBinUpEdge(ax, b) == GetBinLowEdge(ax, b + 1)
\* low edge plus half a bin: xmin + (2b - 1) width / 2
GetBinCenter(ax, b) == RAdd(ax.xmin, RTimesInt(ROverInt(BinWidth(ax), 2), 2 * b - 1))

\* TAxis::FindBin: underflow 0 below xmin, overflow n+1 from xmax upwards
FindBin(ax, x) ==
    IF RLt(x, ax.xmin) THEN 0
    ELSE IF ~RLt(x, ax.xmax) THEN ax.n + 1
    ELSE 1 + RFloor(RDiv(RTimesInt(RSub(x, ax.xmin), ax.n), RSub(ax.xmax, ax.xmin)))

\* TAxis::SetRange(first, last)
SetRange(ax, first, last) ==
    IF last < first \/ (first < 0 /\ last < 0)
       \/ (first > ax.n + 1 /\ last > ax.n + 1) \/ (first = 0 /\ last = 0)
    THEN [ax EXCEPT !.first = 1, !.last = ax.n, !.range = FALSE]
    ELSE [ax EXCEPT !.first = Max(first, 0), !.last = Min(last, ax.n + 1), !.range = TRUE]

\* TAxis::SetRangeUser(ufirst, ulast)
\* ifirst, ilast: the bins holding the two bounds; a bound on a bin edge leaves
\* that bin out
SetRangeUserFrom(ax, ufirst, ulast, ifirst, ilast) ==
    SetRange(ax,
             IF RLe(GetBinUpEdge(ax, ifirst), ufirst) THEN ifirst + 1 ELSE ifirst,
             IF RLe(ulast, GetBinLowEdge(ax, ilast)) THEN ilast - 1 ELSE ilast)

SetRangeUser(ax, ufirst, ulast) ==
    SetRangeUserFrom(ax, ufirst, ulast, FindBin(ax, ufirst), FindBin(ax, ulast))

(***************************************************************************)
(* ROOT histograms (TH1, TH2, THnSparse) and graphs (TGraphErrors)         *)
(***************************************************************************)
None == [cls |-> "None"]
IsNone(h) == h.cls = "None"

\* the cells whose index along axis k is drawn from sets[k]
RECURSIVE CellsIn(_)
CellsIn(sets) ==
    IF Len(sets) = 0 THEN {<<>>}
    ELSE LET k == Len(sets)
         IN  {Append(t, i) : t \in CellsIn(SubSeq(sets, 1, k - 1)), i \in sets[k]}

CellsOf(axes) == CellsIn([k \in 1 .. Len(axes) |-> 0 .. axes[k].n + 1])

MkHist(cls, axes, c, v) == [cls |-> cls, axes |-> axes, c |-> c, v |-> v]
ZeroOn(axes) == [t \in CellsOf(axes) |-> R0]

\* TObject::Clone: an independent copy, axis ranges included
Clone(h) == h

NbinsOf(h, a) == h.axes[a + 1].n

\* TH1::Reset: contents and errors zeroed, binning kept
Reset(h) == [h EXCEPT !.c = ZeroOn(h.axes), !.v = ZeroOn(h.axes)]

\* TH1::Scale(k)
Scale(h, k) ==
    [h EXCEPT !.c = [t \in DOMAIN h.c |-> RMul(h.c[t], k)],
              !.v = [t \in DOMAIN h.v |-> RMul(h.v[t], RSq(k))]]

\* TH1::Rebin / TH2::RebinX,RebinY / THnSparse::Rebin along axis a (0-based), group g:
\* n \div g merged bins; bins that complete no group go to the overflow
RebinMap(ax, g, i) ==
    IF i = 0 THEN 0
    ELSE IF i > (ax.n \div g) * g THEN (ax.n \div g) + 1
    ELSE ((i - 1) \div g) + 1

RebinAxis(ax, g) ==
    MkAxis(ax.n \div g, ax.xmin, GetBinLowEdge(ax, (ax.n \div g) * g + 1))

\* the old cells merged into the new cell t: those whose bin along axis a maps to
\* t's
MergedInto(t, a, map) == {[t EXCEPT ![a + 1] = i] : i \in {j \in DOMAIN map : map[j] = t[a + 1]}}

RebinOnto(h, a, axes2, map) ==
    [h EXCEPT !.axes = axes2,
              !.c = [t \in CellsOf(axes2) |-> RSumSet(h.c, MergedInto(t, a, map))],
              !.v = [t \in CellsOf(axes2) |-> RSumSet(h.v, MergedInto(t, a, map))]]

RebinWith(h, a, axNew, map) == RebinOnto(h, a, [h.axes EXCEPT ![a + 1] = axNew], map)

\* in place; an illegal group (not positive, or larger than the number of bins)
\* is refused
RebinHist(h, a, g) ==
    IF g <= 0 \/ g > h.axes[a + 1].n THEN h
    ELSE RebinWith(h, a, RebinAxis(h.axes[a + 1], g),
                   [i \in 0 .. h.axes[a + 1].n + 1 |-> RebinMap(h.axes[a + 1], g, i)])

\* THnBase::RebinBase: ceil(n / g) bins over the old limits, every old bin
\* added to the new bin that holds its centre; a group below 2 leaves the axis
RebinAxisNd(ax, g) == MkAxis((ax.n + g - 1) \div g, ax.xmin, ax.xmax)

RebinMapNd(ax, axNew, i) ==
    IF i = 0 THEN 0
    ELSE IF i = ax.n + 1 THEN axNew.n + 1
    ELSE FindBin(axNew, GetBinCenter(ax, i))

\* (an axis the histogram does not have is not looked at)
RebinHistNd(h, a, g) ==
    IF g <= 1 \/ a >= Len(h.axes) THEN h
    ELSE RebinWith(h, a, RebinAxisNd(h.axes[a + 1], g),
                   [i \in 0 .. h.axes[a + 1].n + 1 |->
                      RebinMapNd(h.axes[a + 1], RebinAxisNd(h.axes[a + 1], g), i)])

\* Projection onto the axes keep (0-based, in output order); win gives, for every
\* axis that is summed over, the window of bins that enter the sum. A kept axis
\* with a range set is cut down to the bins of its range (TH2::DoProjection,
\* THnBase::CreateHist).
KeptAxis(ax) ==
    IF ax.range
    THEN LET f == Max(ax.first, 1)
             l == Min(ax.last, ax.n)
         IN  MkAxis(l - f + 1, GetBinLowEdge(ax, f), GetBinLowEdge(ax, l + 1))
    ELSE MkAxis(ax.n, ax.xmin, ax.xmax)

AxisWindow(ax) == IF ax.range THEN <<ax.first, ax.last>> ELSE <<0, ax.n + 1>>

\* where axis a (1-based) stands among the kept axes, 0 when it is summed over
KeptAt(keep, a) ==
    IF \E k \in 1 .. Len(keep) : keep[k] + 1 = a
    THEN CHOOSE k \in 1 .. Len(keep) : keep[k] + 1 = a
    ELSE 0

\* the bins of axis ax of the source that enter cell t of the projection
BinsInto(ax, k, t, nk, w) ==
    IF k = 0 THEN (w[1] .. w[2]) \cap (0 .. ax.n + 1)
    ELSE IF ~ax.range THEN {t[k]}
    ELSE IF t[k] \in 1 .. nk THEN {t[k] + Max(ax.first, 1) - 1}
    ELSE {}

CellsInto(h, keep, win, axes2, t) ==
    CellsIn([a \in 1 .. Len(h.axes) |->
               BinsInto(h.axes[a], KeptAt(keep, a), t,
                        IF KeptAt(keep, a) = 0 THEN 0 ELSE axes2[KeptAt(keep, a)].n,
                        win[a])])

ProjectOnto(h, cls, keep, win, axes2) ==
    MkHist(cls, axes2,
           [t \in CellsOf(axes2) |-> RSumSet(h.c, CellsInto(h, keep, win, axes2, t))],
           [t \in CellsOf(axes2) |-> RSumSet(h.v, CellsInto(h, keep, win, axes2, t))])

ProjectWin(h, cls, keep, win) ==
    ProjectOnto(h, cls, keep, win,
                [k \in 1 .. Len(keep) |-> KeptAxis(h.axes[keep[k] + 1])])

Project(h, cls, keep) ==
    ProjectWin(h, cls, keep, [a \in 1 .. Len(h.axes) |-> AxisWindow(h.axes[a])])

\* TH1::Integral(b1, b2, "width") / TH1::Integral()
IntegralWidthOver(h, lo, hi) ==
    RSum([b \in lo .. hi |-> RMul(h.c[<<b>>], BinWidth(h.axes[1]))], lo, hi)

IntegralWidth(h, b1, b2) ==
    IntegralWidthOver(h, Max(b1, 0),
                      IF b2 >= h.axes[1].n + 2 \/ b2 < Max(b1, 0)
                      THEN h.axes[1].n + 1 ELSE b2)

Integral(h) ==
    RSum([b \in h.axes[1].first .. h.axes[1].last |-> h.c[<<b>>]],
         h.axes[1].first, h.axes[1].last)

\* TH1::Divide(h2): bin by bin, 0 where the denominator is 0, the variance
\* (e1^2 c2^2 + e2^2 c1^2) / c2^4; refused (histogram left as it is) when the
\* numbers of bins differ
Divide(h, h2) ==
    IF h.axes[1].n # h2.axes[1].n THEN h
    ELSE [h EXCEPT
            !.c = [t \in DOMAIN h.c |->
                     IF h2.c[t] = R0 THEN R0 ELSE RDiv(h.c[t], h2.c[t])],
            !.v = [t \in DOMAIN h.v |->
                     IF h2.c[t] = R0 THEN R0
                     ELSE RDiv(RAdd(h.v[t], RMul(h2.v[t], RSq(RDiv(h.c[t], h2.c[t])))),
                               RSq(h2.c[t]))]]

(***************************************************************************)
(* HistUtils                                                               *)
(***************************************************************************)
\* (variant: the bin FindBin returns is kept as it is)
UpperEdgeDetectionOff(Axis, Value, FoundBin) == FoundBin

UpperEdgeDetection(Axis, Value, FoundBin) ==
    IF RLt(RAbs(RSub(Value, GetBinLowEdge(Axis, FoundBin))), <<1, 10000000>>)
       /\ FoundBin # 1
    THEN FoundBin - 1
    ELSE FoundBin

FindBinWithUpperEdgeDetection(Axis, Value) ==
    UpperEdgeDetection(Axis, Value, FindBin(Axis, Value))

GetHistDimension(hist) ==
    IF hist.cls = "THnSparse" THEN Len(hist.axes)
    ELSE IF hist.cls = "TH3" THEN 3
    ELSE IF hist.cls = "TH2" THEN 2
    ELSE IF hist.cls = "TH1" THEN 1
    ELSE 0

\* the 1/2/3-dimensional branches call GetXaxis/GetYaxis/GetZaxis, which only
\* the TH1 family has
SetHistRangesRaises(hist, ranges) ==
    GetHistDimension(hist) \in 1 .. 3 /\ hist.cls = "THnSparse"

\* hist.GetXaxis().SetRangeUser(cut[0], cut[1]) where a cut is given
CutUser(ax, cut) == IF cut # <<>> THEN SetRangeUser(ax, cut[1], cut[2]) ELSE ax

\* hist.GetAxis(dim).SetRange(bin_low, bin_high) where a cut is given
CutBins(ax, cut) ==
    IF cut # <<>>
    THEN SetRange(ax, FindBin(ax, cut[1]), FindBinWithUpperEdgeDetection(ax, cut[2]))
    ELSE ax

SetHistRanges(hist, ranges) ==
    IF GetHistDimension(hist) \in 1 .. 3
    THEN [hist EXCEPT !.axes = [d \in 1 .. GetHistDimension(hist) |->
                                  CutUser(hist.axes[d], ranges[d])]]
    ELSE [hist EXCEPT !.axes = [d \in 1 .. Len(ranges) |->
                                  CutBins(hist.axes[d], ranges[d])]]

\* a None histogram has no InheritsFrom: GetHistDimension raises
RescaleHistRaises(hist, axis) ==
    \/ IsNone(hist)
    \/ axis < 0
    \/ axis >= GetHistDimension(hist)

\* new TH1F/TH2F over the scaled limits; bins 1..n copied with their errors
InnerCell(axes, t) == \A k \in 1 .. Len(axes) : t[k] \in 1 .. axes[k].n

CopyInner(hist, axes2) ==
    MkHist(hist.cls, axes2,
           [t \in CellsOf(axes2) |-> IF InnerCell(axes2, t) THEN hist.c[t] ELSE R0],
           [t \in CellsOf(axes2) |-> IF InnerCell(axes2, t) THEN hist.v[t] ELSE R0])

RescaleHist(hist, scale, axis) ==
    CopyInner(hist,
              [k \in 1 .. Len(hist.axes) |->
                 IF k = axis + 1
                 THEN MkAxis(hist.axes[k].n, RMul(hist.axes[k].xmin, scale),
                             RMul(hist.axes[k].xmax, scale))
                 ELSE MkAxis(hist.axes[k].n, hist.axes[k].xmin, hist.axes[k].xmax)])

(***************************************************************************)
(* CorrelationUtils                                                        *)
(***************************************************************************)
\* ProjectionX for axis 0, ProjectionY for axis 1, nothing for any other axis
Proj2dTo1d(hist_2d, axis) ==
    IF axis \in {0, 1} THEN Project(hist_2d, "TH1", <<axis>>) ELSE None

ProjNdTo2d(hist_Nd, axis_x, axis_y) == Project(hist_Nd, "TH2", <<axis_x, axis_y>>)

ProjNdTo1d(hist_Nd, axis) == Project(hist_Nd, "TH1", <<axis>>)

\* the swap loops over range(NbinsX) x range(NbinsY), i.e. bins 0 .. n-1, and
\* fills a new TH2D with SetBinContent only (errors are sqrt(|content|))
SwappedCell(hist_2d, t) ==
    IF t[2] \in 0 .. hist_2d.axes[1].n - 1 /\ t[1] \in 0 .. hist_2d.axes[2].n - 1
    THEN hist_2d.c[<<t[2], t[1]>>]
    ELSE R0

SwappedOnto(hist_2d, axes2) ==
    MkHist("TH2", axes2,
           [t \in CellsOf(axes2) |-> SwappedCell(hist_2d, t)],
           [t \in CellsOf(axes2) |-> RAbs(SwappedCell(hist_2d, t))])

Proj2dTo2d(hist_2d, axis_x, axis_y) ==
    IF axis_x = 0 /\ axis_y = 1 THEN Clone(hist_2d)
    ELSE SwappedOnto(hist_2d,
                     <<MkAxis(hist_2d.axes[2].n, hist_2d.axes[2].xmin, hist_2d.axes[2].xmax),
                       MkAxis(hist_2d.axes[1].n, hist_2d.axes[1].xmin, hist_2d.axes[1].xmax)>>)

\* the reweight-axis bins the loop of Reweight2d visits
ReweightBins(se) == 1 .. (NbinsOf(se, 1) - 1)

ProjectionXSlice(h, ybin) ==
    ProjectWin(h, "TH1", <<0>>, [a \in 1 .. 2 |-> <<ybin, ybin>>])

\* MeBin.Scale(SeInt / MeInt) where both integrals are positive; None where
\* the pass writes nothing
\* (variant: a slice that is not scaled is written as it is)
ScaledSliceCopied(MeBin, SeInt, MeInt) ==
    IF RLt(R0, MeInt) /\ RLt(R0, SeInt) THEN Scale(MeBin, RDiv(SeInt, MeInt)) ELSE MeBin

ScaledSlice(MeBin, SeInt, MeInt) ==
    IF RLt(R0, MeInt) /\ RLt(R0, SeInt) THEN Scale(MeBin, RDiv(SeInt, MeInt)) ELSE None

ReweightedSlice(SeBin, MeBin) == ScaledSlice(MeBin, Integral(SeBin), Integral(MeBin))

WrittenFrom(col, t) ==
    /\ t[2] \in DOMAIN col
    /\ ~IsNone(col[t[2]])
    /\ t[1] \in 1 .. col[t[2]].axes[1].n

\* SetBinContent/SetBinError of the cells the loop reaches; col[ybin] is the
\* scaled ME slice of pass ybin
FilledFrom(MeRw, col) ==
    [MeRw EXCEPT
       !.c = [t \in DOMAIN MeRw.c |->
                IF WrittenFrom(col, t) THEN col[t[2]].c[<<t[1]>>] ELSE R0],
       !.v = [t \in DOMAIN MeRw.v |->
                IF WrittenFrom(col, t) THEN col[t[2]].v[<<t[1]>>] ELSE R0]]

Reweight2d(se, me) ==
    FilledFrom(Reset(Clone(me)),
               [ybin \in ReweightBins(se) |->
                  ReweightedSlice(ProjectionXSlice(se, ybin), ProjectionXSlice(me, ybin))])

\* the scale factor Normalize applies; the division by a zero integral raises
\* and is swallowed, leaving the histogram as it is
\* (variant: the quotient is taken the other way round)
FactorOfInverted(LowerEdge, UpperEdge, Dist_Integral) ==
    IF Dist_Integral = R0 THEN R1
    ELSE RDiv(Dist_Integral, RSub(UpperEdge, LowerEdge))

\* (variant: a zero integral scales the distribution by zero)
FactorOfZeroing(LowerEdge, UpperEdge, Dist_Integral) ==
    IF Dist_Integral = R0 THEN R0
    ELSE RDiv(RSub(UpperEdge, LowerEdge), Dist_Integral)

FactorOf(LowerEdge, UpperEdge, Dist_Integral) ==
    IF Dist_Integral = R0 THEN R1
    ELSE RDiv(RSub(UpperEdge, LowerEdge), Dist_Integral)

FactorBetween(distribution, LowerBin, UpperBin) ==
    FactorOf(GetBinLowEdge(distribution.axes[1], LowerBin),
             GetBinLowEdge(distribution.axes[1], UpperBin + 1),
             IntegralWidth(distribution, LowerBin, UpperBin))

NormalizeFactor(distribution, range) ==
    FactorBetween(distribution, FindBin(distribution.axes[1], range[1]),
                  FindBin(distribution.axes[1], range[2]))

Normalize(distribution, range) == Scale(distribution, NormalizeFactor(distribution, range))

MkGraph(pts) == [cls |-> "TGraphErrors", pts |-> pts]

\* one point of Recenter for bin b of cf, from the fine bins lo .. hi of me;
\* errors are kept squared
PointWith(cf, me, b, lo, hi, centre, norm, value) ==
    [x   |-> value,
     ex2 |-> IF RLt(R0, norm)
             THEN RDiv(RSum([j \in lo .. hi |->
                               RMul(me.c[<<j>>], RSq(RSub(centre[j], value)))], lo, hi),
                       norm)
             ELSE RSq(ROverInt(BinWidth(cf.axes[1]), 2)),
     y   |-> cf.c[<<b>>],
     ey2 |-> cf.v[<<b>>],
     norm |-> norm]

PointFrom(cf, me, b, lo, hi, centre, norm) ==
    PointWith(cf, me, b, lo, hi, centre, norm,
              IF RLt(R0, norm)
              THEN RDiv(RSum([j \in lo .. hi |-> RMul(centre[j], me.c[<<j>>])], lo, hi),
                        norm)
              ELSE GetBinCenter(cf.axes[1], b))

PointOver(cf, me, b, lo, hi) ==
    PointFrom(cf, me, b, lo, hi,
              [j \in lo .. hi |-> GetBinCenter(me.axes[1], j)],
              RSum([j \in lo .. hi |-> me.c[<<j>>]], lo, hi))

\* (variant: the loop over the fine bins starts one bin early)
RecenterPointShifted(cf, me, rebin, b) == PointOver(cf, me, b, (b - 1) * rebin, b * rebin)

\* range(1 + (bin - 1) * rebin, bin * rebin + 1)
RecenterPoint(cf, me, rebin, b) == PointOver(cf, me, b, 1 + (b - 1) * rebin, b * rebin)

\* (variant: empty bins are never skipped)
AppendedAlways(p, skipEmptyBins) ==
    <<[x |-> p.x, ex2 |-> p.ex2, y |-> p.y, ey2 |-> p.ey2]>>

\* the point appended for a bin, none for an empty bin that is skipped
Appended(p, skipEmptyBins) ==
    IF skipEmptyBins /\ p.norm = R0 THEN <<>>
    ELSE <<[x |-> p.x, ex2 |-> p.ex2, y |-> p.y, ey2 |-> p.ey2]>>

RECURSIVE RecenterFrom(_, _, _, _, _)
RecenterFrom(cf, me, rebin, skipEmptyBins, b) ==
    IF b > cf.axes[1].n THEN <<>>
    ELSE Appended(RecenterPoint(cf, me, rebin, b), skipEmptyBins)
         \o RecenterFrom(cf, me, rebin, skipEmptyBins, b + 1)

Recenter(cf, me, skipEmptyBins) ==
    MkGraph(RecenterFrom(cf, me, me.axes[1].n \div cf.axes[1].n, skipEmptyBins, 1))

RescaleGraph(graph, scale) ==
    MkGraph([i \in 1 .. Len(graph.pts) |->
               [x   |-> RMul(graph.pts[i].x, scale),
                ex2 |-> RMul(graph.pts[i].ex2, RSq(scale)),
                y   |-> graph.pts[i].y,
                ey2 |-> graph.pts[i].ey2]])

(***************************************************************************)
(* Inputs: the SE/ME pairs a caller may hold and the option values tried   *)
(***************************************************************************)
AxK10 == MkAxis(10, RI(0), RI(10))
AxK4 == MkAxis(4, RI(0), RI(4))
AxW2 == MkAxis(2, RI(0), RI(2))

\* unit-weight entries, a negative content being entries of weight -1:
\* variance = |content|; rows[w][k] for 2-d
Fill1(cls, ax, vals) ==
    LET f == [t \in CellsOf(<<ax>>) |-> IF t[1] \in 1 .. ax.n THEN RI(vals[t[1]]) ELSE R0]
    IN  MkHist(cls, <<ax>>, f, [t \in DOMAIN f |-> RI(Abs(f[t][1]))])

Fill2(cls, axk, axw, rows) ==
    LET f == [t \in CellsOf(<<axk, axw>>) |->
                IF t[1] \in 1 .. axk.n /\ t[2] \in 1 .. axw.n
                THEN RI(rows[t[2]][t[1]]) ELSE R0]
    IN  MkHist(cls, <<axk, axw>>, f, [t \in DOMAIN f |-> RI(Abs(f[t][1]))])

\* E, A, B, N: SE and ME of one class and dimension; Z: slices of negative
\* and of zero integral; M: a 1-d SE with a 2-d ME; S: sparse SE and ME of 2 and 1 dimensions
SampleIds == {"E", "A", "B", "N", "Z", "M", "S"}

SampleSe(id) ==
    CASE id = "E" -> Fill1("TH1", AxK10, <<1, 2, 3, 4, 5, 5, 4, 3, 2, 1>>)
      [] id = "A" -> Fill2("TH2", AxK4, AxW2, <<<<1, 2, 3, 4>>, <<2, 2, 2, 2>>>>)
      [] id = "B" -> Fill2("TH2", AxK4, AxW2, <<<<3, 1, 0, 2>>, <<1, 2, 0, 1>>>>)
      [] id = "N" -> Fill2("THnSparse", AxK4, AxW2, <<<<2, 1, 1, 2>>, <<1, 3, 2, 2>>>>)
      [] id = "Z" -> Fill2("TH2", AxK4, AxW2, <<<<1, -2, 1, 0>>, <<1, 2, 0, 1>>>>)
      [] id = "M" -> Fill1("TH1", AxK4, <<1, 2, 2, 1>>)
      [] id = "S" -> Fill2("THnSparse", AxK4, AxW2, <<<<2, 1, 1, 2>>, <<1, 3, 2, 2>>>>)

SampleMe(id) ==
    CASE id = "E" -> Fill1("TH1", AxK10, <<1, 2, 3, 4, 5, 5, 4, 3, 2, 1>>)
      [] id = "A" -> Fill2("TH2", AxK4, AxW2, <<<<4, 8, 12, 16>>, <<6, 12, 18, 24>>>>)
      [] id = "B" -> Fill2("TH2", AxK4, AxW2, <<<<2, 2, 0, 0>>, <<3, 3, 0, 0>>>>)
      [] id = "N" -> Fill2("THnSparse", AxK4, AxW2, <<<<0, 0, 3, 1>>, <<0, 0, 2, 2>>>>)
      [] id = "Z" -> Fill2("TH2", AxK4, AxW2, <<<<0, 2, 1, 0>>, <<3, 3, 0, 0>>>>)
      [] id = "M" -> Fill2("TH2", AxK4, AxW2, <<<<1, 1, 1, 1>>, <<1, 1, 1, 1>>>>)
      [] id = "S" -> Fill1("THnSparse", AxK4, <<3, 3, 5, 3>>)

MaxRebin == 2
RebinChoices == -1 .. MaxRebin
RescaleChoices == {RI(-1), RI(2)}
AxisChoices == {-1, 0, 1, 2}
NormChoices ==
    {<<>>, <<<<1, 2>>, <<7, 2>>>>, <<<<1, 2>>, <<19, 2>>>>, <<RI(3), RI(1)>>, <<RI(2), RI(3)>>}
RangeChoices ==
    {<<>>,
     <<<<RI(1), RI(3)>>>>,
     <<<<>>, <<RI(0), RI(1)>>>>,
     <<<<RI(1), RI(3)>>, <<>>>>,
     <<<<RI(3), RI(1)>>, <<>>>>}

(***************************************************************************)
(* CorrelationHandler                                                      *)
(***************************************************************************)
VARIABLES
    sample,   \* which SE/ME pair the caller holds
    heap,     \* the SE/ME histogram objects, by reference
    args,     \* the constructor arguments of the configuration being run
    hs,       \* the handler and its nested no-rebin handler
    cur,      \* the handler whose FinalTouch is executing
    out,      \* the artifact tree SaveOutput handed to persistence
    steer,              \* where SteerAnalysis stands
    _range_list,        \* "Bins": per axis, the edges of the candidate ranges
    _rebin_list,        \* "Rebin_Factor_Kstar_Axis"
    _config_list,       \* the configurations of the sweep
    index,              \* the configuration the loop of SteerAnalysis is at
    _output_path_list,  \* the partial output files written so far
    merged,             \* the output file MergeOutputs writes
    calls,              \* the SteerAnalysis calls made on the AnalysisHandler
    parallel,           \* SteerAnalysis(parallel, workers), of the call under way
    workers,
    futures,            \* parallel: per configuration, what its worker returned
    processed,          \* per configuration, the _ProcessHandler calls of this call
    tmp_dir,            \* the TemporaryDirectory of the call and the paths in it
    hist,               \* SetHistRanges: the histogram handed in
    bins,               \* the edges of the candidate ranges of its first axis
    applied_ranges,     \* the ranges applied last
    hist_inRange,       \* the histogram with the ranges applied
    inputs,             \* FemtoMerger: the entries to merge
    overwrite,
    mergeJobs,
    out_file,           \* whether the output file exists, and whether hadd wrote it
    merge,              \* where merge() is
    copies,             \* the futures of the copy tasks
    order,              \* the indices in the order as_completed handed them out
    tmp_inputs,         \* the list merge() fills with the temporary copies
    hadd                \* the file list the hadd command was started with

callVars == <<calls, parallel, workers, futures, processed, tmp_dir>>
sweepVars ==
    <<steer, _range_list, _rebin_list, _config_list, index, _output_path_list, merged,
      callVars>>
rangeVars == <<hist, bins, applied_ranges, hist_inRange>>
mergerVars ==
    <<inputs, overwrite, mergeJobs, out_file, merge, copies, order, tmp_inputs, hadd>>
restVars == <<rangeVars, mergerVars>>
pipelineVars == <<sample, heap, args, hs, cur, out>>
vars == <<pipelineVars, sweepVars, restVars>>

Refs == {"callerSe", "callerMe", "outerSe", "outerMe", "nestedSe", "nestedMe",
         "outerSeRebinned", "outerMeRebinned"}
OwnRefs == Refs \ {"callerSe", "callerMe"}

\* (variant: the handler keeps the caller's object instead of a copy)
CloneRefAlias(src, fresh) == src

\* Clone returns a new object: the reference the copy lives under
CloneRef(src, fresh) == fresh

Absent == [pc |-> "absent"]

\* (variant: the edges of a range are not compared)
BadRangeNever(bin) == FALSE

\* if bin: if bin[0] > bin[1]: raise
BadRange(bin) == bin # <<>> /\ RLt(bin[2], bin[1])

\* the first check of __init__ that fails, or "ok"
CtorError(se, me, a) ==
    LET dim == GetHistDimension(se)
    IN  IF IsNone(se) \/ IsNone(me) THEN "TypeError: null"
        ELSE IF se.cls # me.cls THEN "TypeError: type"
        ELSE IF dim - 1 < a.axis_kstar THEN "ValueError: kstar axis"
        ELSE IF Len(a.normalization_range) = 2
                /\ RLt(a.normalization_range[2], a.normalization_range[1])
             THEN "ValueError: NormRange"
        ELSE IF a.axis_reweight >= 0 /\ dim <= 1 THEN "ValueError: reweight 1D"
        ELSE IF a.axis_reweight >= 0 /\ dim - 1 < a.axis_reweight
             THEN "ValueError: reweight axis"
        ELSE IF a.axis_reweight >= 0 /\ a.axis_kstar = a.axis_reweight
             THEN "ValueError: same axis"
        ELSE IF a.ranges # <<>> /\ Len(a.ranges) # dim THEN "ValueError: ranges"
        ELSE IF a.ranges # <<>> /\ \E d \in 1 .. Len(a.ranges) : BadRange(a.ranges[d])
             THEN "ValueError: range"
        ELSE "ok"

\* (variant: every factor but 1 switches rebinning on)
DoRebinFlagNotOne(rebin_kstar) == rebin_kstar # 1

DoRebinFlag(rebin_kstar) == rebin_kstar > 1

\* the handler __init__ returns; se and me are the references of its clones
CtorHandler(se, seRef, meRef, a) ==
    LET dim == GetHistDimension(se)
    IN  [pc |-> "Constructed", log |-> <<>>, err |-> "",
         se |-> seRef, me |-> meRef,
         se_inRange |-> None, me_inRange |-> None,
         se_2d |-> None, me_2d |-> None,
         se_1d |-> None, se_1d_normalized |-> None,
         me_1d |-> None, me_1d_normalized |-> None,
         cf |-> None, cf_reweighted |-> None,
         cf_recentered |-> None, cf_reweighted_recentered |-> None,
         me_2d_reweighted |-> None, me_1d_reweighted |-> None,
         me_1d_reweighted_normalized |-> None,
         dim |-> dim,
         normalization_range |->
             IF Len(a.normalization_range) = 2 THEN a.normalization_range ELSE <<>>,
         rebin_kstar |-> IF DoRebinFlag(a.rebin_kstar) THEN a.rebin_kstar ELSE 1,
         rescale_kstar |-> IF RLt(R0, a.rescale_kstar) THEN a.rescale_kstar ELSE R0,
         axis_kstar |-> IF dim = 1 THEN 0 ELSE a.axis_kstar,
         axis_reweight |-> IF a.axis_reweight >= 0 THEN a.axis_reweight ELSE -1,
         ranges |-> a.ranges,
         do_normalization |-> Len(a.normalization_range) = 2,
         do_rebin |-> DoRebinFlag(a.rebin_kstar),
         do_rescale |-> RLt(R0, a.rescale_kstar),
         do_reweight |-> a.axis_reweight >= 0,
         do_ranges |-> a.ranges # <<>>,
         inheritsTH1 |-> se.cls \in {"TH1", "TH2", "TH3"}]

Raised(msg) == [pc |-> "raised", err |-> msg]

\* FinalTouch: the steps in program order and the condition each runs under
FinalTouchOrder ==
    <<"DoNoRebin", "DoRebin", "DoRanges", "DoProjections", "DoProjectionsWithRw",
      "DoCorrelations", "DoNormalizations", "DoRecenter", "DoRescale",
      "ManageHistograms">>

\* (variant: recentering is run under the normalization flag)
FinalTouchGuardRecenterOnNorm(h, step) ==
    CASE step \in {"DoNoRebin", "DoRebin"} -> h.do_rebin
      [] step = "DoRecenter" -> h.do_normalization
      [] step = "DoRanges" -> h.do_ranges
      [] step = "DoProjectionsWithRw" -> h.do_reweight
      [] step = "DoNormalizations" -> h.do_normalization
      [] step = "DoRescale" -> h.do_rescale
      [] OTHER -> TRUE

FinalTouchGuard(h, step) ==
    CASE step \in {"DoNoRebin", "DoRebin", "DoRecenter"} -> h.do_rebin
      [] step = "DoRanges" -> h.do_ranges
      [] step = "DoProjectionsWithRw" -> h.do_reweight
      [] step = "DoNormalizations" -> h.do_normalization
      [] step = "DoRescale" -> h.do_rescale
      [] OTHER -> TRUE

StepIndex(step) ==
    IF step = "Start" THEN 0
    ELSE CHOOSE i \in 1 .. Len(FinalTouchOrder) : FinalTouchOrder[i] = step

FirstOf(later) ==
    IF later = {} THEN "Done"
    ELSE FinalTouchOrder[CHOOSE i \in later : \A j \in later : i <= j]

NextStep(h, after) ==
    FirstOf({i \in 1 .. Len(FinalTouchOrder) :
               i > StepIndex(after) /\ FinalTouchGuard(h, FinalTouchOrder[i])})

\* a step of handler who completes with the handler now h2
Advance(who, step, h2) ==
    [h2 EXCEPT !.pc = NextStep(h2, step), !.log = Append(hs[who].log, step)]

\* an exception leaves FinalTouch of who and of every caller above it
Fail(who, step, msg) ==
    /\ hs' = [n \in DOMAIN hs |->
                IF n = who
                THEN [hs[n] EXCEPT !.pc = "Error", !.err = msg,
                                   !.log = Append(hs[n].log, step)]
                ELSE IF n = "outer" THEN [hs[n] EXCEPT !.pc = "Error", !.err = msg]
                ELSE hs[n]]
    /\ cur' = "outer"

At(step) == hs[cur].pc = step

\* a step of the running handler returns with the handler now h2; the nested
\* handler's last step returns control to the caller of DoNoRebin
Finish(step, h2) ==
    \E h3 \in {Advance(cur, step, h2)} :
      IF h3.pc = "Done" /\ cur = "nested"
      THEN /\ hs' = [hs EXCEPT !["nested"] = h3,
                               !["outer"].pc = NextStep(hs["outer"], "DoNoRebin")]
           /\ cur' = "outer"
      ELSE /\ hs' = [hs EXCEPT ![cur] = h3]
           /\ cur' = cur

NoTree == [SE |-> <<>>, ME |-> <<>>, CF |-> <<>>, No_Rebin |-> <<>>, written |-> FALSE]

\* no histogram is handed to SetHistRanges on its own
RangesIdle == hist = None /\ bins = <<>> /\ applied_ranges = <<>> /\ hist_inRange = None

\* no FemtoMerger is made
MergerIdle ==
    /\ inputs = <<>> /\ overwrite = FALSE /\ mergeJobs = 0
    /\ out_file = [exists |-> FALSE, written |-> FALSE]
    /\ merge = "idle" /\ copies = <<>> /\ order = <<>> /\ tmp_inputs = <<>> /\ hadd = <<>>

\* no SteerAnalysis call was made: no worker, no temporary directory
NoTmpDir == [id |-> 0, exists |-> FALSE, files |-> {}]
NoCall ==
    /\ calls = 0 /\ parallel = FALSE /\ workers = 0
    /\ futures = <<>> /\ processed = <<>> /\ tmp_dir = NoTmpDir

\* the output file before MergeOutputs has written it
NoFile == [written |-> FALSE, dirs |-> <<>>]

ArgsChoices ==
    [normalization_range : NormChoices, rebin_kstar : RebinChoices,
     rescale_kstar : RescaleChoices, axis_kstar : AxisChoices,
     axis_reweight : AxisChoices, ranges : RangeChoices]

Init ==
    /\ sample \in SampleIds
    /\ heap = [r \in Refs |->
                 IF r = "callerSe" THEN SampleSe(sample)
                 ELSE IF r = "callerMe" THEN SampleMe(sample)
                 ELSE None]
    /\ args \in ArgsChoices
    /\ hs = [n \in {"outer", "nested"} |-> Absent]
    /\ cur = "outer"
    /\ out = NoTree
    /\ steer = "run"
    /\ _range_list = <<>>
    /\ _rebin_list = <<1>>
    /\ _config_list = <<>>
    /\ index = 0
    /\ _output_path_list = <<>>
    /\ merged = NoFile
    /\ NoCall
    /\ RangesIdle
    /\ MergerIdle

\* Spec runs one configuration at a time, as _ProcessHandler does, with the
\* sweep around it held where it stands; SweepSpec below runs the sweep.
\* In the actions a value computed once by the code is bound once,
\* \E x \in {e} : ..., and used under that name.

\* _ProcessHandler: Handler = ch.CorrelationHandler(self._Se, self._Me, ...)
Construct ==
    /\ steer = "run"
    /\ hs["outer"].pc = "absent"
    /\ \E e \in {CtorError(heap["callerSe"], heap["callerMe"], args)},
          seRef \in {CloneRef("callerSe", "outerSe")},
          meRef \in {CloneRef("callerMe", "outerMe")} :
         IF e # "ok"
         THEN /\ hs' = [hs EXCEPT !["outer"] = Raised(e)]
              /\ heap' = heap
         ELSE /\ hs' = [hs EXCEPT !["outer"] =
                          CtorHandler(heap["callerSe"], seRef, meRef, args)]
              /\ heap' = [heap EXCEPT ![seRef] = Clone(heap["callerSe"]),
                                      ![meRef] = Clone(heap["callerMe"])]
    /\ UNCHANGED <<sample, args, cur, out, sweepVars, restVars>>

\* entry of FinalTouch: control reaches the first step whose option is on
FinalTouch ==
    /\ At("Constructed")
    /\ hs' = [hs EXCEPT ![cur].pc = NextStep(hs[cur], "Start")]
    /\ UNCHANGED <<sample, heap, args, cur, out, sweepVars, restVars>>

\* (variant: the nested handler is given the rebin factor of its maker)
NoRebinArgsRebinning(h) ==
    [normalization_range |-> h.normalization_range, rebin_kstar |-> h.rebin_kstar,
     rescale_kstar |-> h.rescale_kstar, axis_kstar |-> h.axis_kstar,
     axis_reweight |-> h.axis_reweight, ranges |-> h.ranges]

NoRebinArgs(h) ==
    [normalization_range |-> h.normalization_range, rebin_kstar |-> 0,
     rescale_kstar |-> h.rescale_kstar, axis_kstar |-> h.axis_kstar,
     axis_reweight |-> h.axis_reweight, ranges |-> h.ranges]

\* builds the handler without rebinning and calls its FinalTouch
DoNoRebin ==
    /\ At("DoNoRebin")
    /\ cur = "outer"
    /\ \E h \in {hs["outer"]} :
       \E a2 \in {NoRebinArgs(h)},
          seRef \in {CloneRef(h.se, "nestedSe")},
          meRef \in {CloneRef(h.me, "nestedMe")} :
       \E e \in {CtorError(heap[h.se], heap[h.me], a2)} :
         IF e # "ok"
         THEN Fail("outer", "DoNoRebin", e) /\ heap' = heap
         ELSE /\ hs' = [hs EXCEPT
                          !["outer"].log = Append(h.log, "DoNoRebin"),
                          !["nested"] = CtorHandler(heap[h.se], seRef, meRef, a2)]
              /\ heap' = [heap EXCEPT ![seRef] = Clone(heap[h.se]),
                                      ![meRef] = Clone(heap[h.me])]
              /\ cur' = "nested"
    /\ UNCHANGED <<sample, args, out, sweepVars, restVars>>

\* the axis Rebin/RebinX/RebinY/RebinZ works on
RebinAxisIndex(h) ==
    IF h.dim = 1 THEN 0
    ELSE IF h.dim = 2 THEN (IF h.axis_kstar = 0 THEN 0 ELSE 1)
    ELSE IF h.axis_kstar = 0 THEN 0 ELSE IF h.axis_kstar = 1 THEN 1 ELSE 2

\* RebinFactors[axis_kstar]: a negative index counts from the last axis
RebinAxisIndexNd(h) == IF h.axis_kstar < 0 THEN h.dim + h.axis_kstar ELSE h.axis_kstar

DoRebin ==
    /\ At("DoRebin")
    /\ \E h \in {hs[cur]} :
         IF h.inheritsTH1
         THEN /\ heap' = [heap EXCEPT
                            ![h.se] = RebinHist(heap[h.se], RebinAxisIndex(h), h.rebin_kstar),
                            ![h.me] = RebinHist(heap[h.me], RebinAxisIndex(h), h.rebin_kstar)]
              /\ Finish("DoRebin", h)
         ELSE /\ heap' = [heap EXCEPT
                            !["outerSeRebinned"] =
                                RebinHistNd(heap[h.se], RebinAxisIndexNd(h), h.rebin_kstar),
                            !["outerMeRebinned"] =
                                RebinHistNd(heap[h.me], RebinAxisIndexNd(h), h.rebin_kstar)]
              /\ \E h2 \in {[h EXCEPT !.se = "outerSeRebinned",
                                      !.me = "outerMeRebinned"]} :
                   Finish("DoRebin", h2)
    /\ UNCHANGED <<sample, args, out, sweepVars, restVars>>

DoRanges ==
    /\ At("DoRanges")
    /\ \E h \in {hs[cur]} :
         IF SetHistRangesRaises(heap[h.se], h.ranges)
         THEN Fail(cur, "DoRanges", "AttributeError: GetXaxis")
         ELSE \E h2 \in {[h EXCEPT
                            !.se_inRange = SetHistRanges(Clone(heap[h.se]), h.ranges),
                            !.me_inRange = SetHistRanges(Clone(heap[h.me]), h.ranges)]} :
                Finish("DoRanges", h2)
    /\ UNCHANGED <<sample, heap, args, out, sweepVars, restVars>>

\* the SE/ME the projections read
SeUsed(h) == IF h.do_ranges THEN h.se_inRange ELSE heap[h.se]
MeUsed(h) == IF h.do_ranges THEN h.me_inRange ELSE heap[h.me]

Proj3dTo1d(hist_3d, axis) == Project(hist_3d, "TH1", <<axis>>)
Proj3dTo2d(hist_3d, axis_x, axis_y) == Project(hist_3d, "TH2", <<axis_x, axis_y>>)

ValidAxis(h, a) == a \in 0 .. h.dim - 1

\* THnBase::Projection is asked for axes the histogram has
HasAxes(x, axes) == \A a \in axes : a \in 0 .. Len(x.axes) - 1

\* the projection onto the kstar axis DoProjections picks for the handler's
\* class and dimension
ProjectKstar(h, x) ==
    IF h.inheritsTH1
    THEN IF h.dim = 1 THEN Clone(x)
         ELSE IF h.dim = 2 THEN Proj2dTo1d(x, h.axis_kstar)
         ELSE Proj3dTo1d(x, h.axis_kstar)
    ELSE ProjNdTo1d(x, h.axis_kstar)

DoProjections ==
    /\ At("DoProjections")
    /\ \E h \in {hs[cur]} :
         IF (~h.inheritsTH1 \/ h.dim = 3)
            /\ (~ValidAxis(h, h.axis_kstar) \/ ~HasAxes(MeUsed(h), {h.axis_kstar}))
         THEN Fail(cur, "DoProjections", "invalid axis in Projection")
         ELSE \E h2 \in {[h EXCEPT !.se_1d = ProjectKstar(h, SeUsed(h)),
                                   !.me_1d = ProjectKstar(h, MeUsed(h))]} :
                Finish("DoProjections", h2)
    /\ UNCHANGED <<sample, heap, args, out, sweepVars, restVars>>

\* the projection onto (kstar, reweight) DoProjectionsWithRw picks
ProjectKstarVsRw(h, x) ==
    IF h.inheritsTH1
    THEN IF h.dim = 2 THEN Proj2dTo2d(x, h.axis_kstar, h.axis_reweight)
         ELSE Proj3dTo2d(x, h.axis_kstar, h.axis_reweight)
    ELSE ProjNdTo2d(x, h.axis_kstar, h.axis_reweight)

DoProjectionsWithRw ==
    /\ At("DoProjectionsWithRw")
    /\ \E h \in {hs[cur]} :
         IF (~h.inheritsTH1 \/ h.dim = 3)
            /\ (~ValidAxis(h, h.axis_kstar)
                \/ ~HasAxes(MeUsed(h), {h.axis_kstar, h.axis_reweight}))
         THEN Fail(cur, "DoProjectionsWithRw", "invalid axis in Projection")
         ELSE \E se2 \in {ProjectKstarVsRw(h, SeUsed(h))},
                 me2 \in {ProjectKstarVsRw(h, MeUsed(h))} :
              \E rw \in {Reweight2d(se2, me2)} :
              \E h2 \in {[h EXCEPT !.se_2d = se2, !.me_2d = me2,
                                   !.me_2d_reweighted = rw,
                                   !.me_1d_reweighted = Proj2dTo1d(rw, 0)]} :
                Finish("DoProjectionsWithRw", h2)
    /\ UNCHANGED <<sample, heap, args, out, sweepVars, restVars>>

DoCorrelations ==
    /\ At("DoCorrelations")
    /\ \E h \in {hs[cur]} :
         IF IsNone(h.se_1d)
         THEN Fail(cur, "DoCorrelations", "AttributeError: Clone")
         ELSE \E h2 \in {[h EXCEPT
                            !.cf = Divide(Clone(h.se_1d), h.me_1d),
                            !.cf_reweighted =
                                IF h.do_reweight
                                THEN Divide(Clone(h.se_1d), h.me_1d_reweighted)
                                ELSE h.cf_reweighted]} :
                Finish("DoCorrelations", h2)
    /\ UNCHANGED <<sample, heap, args, out, sweepVars, restVars>>

DoNormalizations ==
    /\ At("DoNormalizations")
    /\ \E h \in {hs[cur]} :
       \E r \in {h.normalization_range} :
       \E h2 \in {[h EXCEPT
                     !.se_1d_normalized = Normalize(Clone(h.se_1d), r),
                     !.me_1d_normalized = Normalize(Clone(h.me_1d), r),
                     !.cf = Normalize(h.cf, r),
                     !.me_1d_reweighted_normalized =
                         IF h.do_reweight THEN Normalize(Clone(h.me_1d_reweighted), r)
                         ELSE h.me_1d_reweighted_normalized,
                     !.cf_reweighted =
                         IF h.do_reweight THEN Normalize(h.cf_reweighted, r)
                         ELSE h.cf_reweighted]} :
         Finish("DoNormalizations", h2)
    /\ UNCHANGED <<sample, heap, args, out, sweepVars, restVars>>

\* __handler_noRebin of the handler that is running
NoRebinOf(who) == IF who = "outer" THEN hs["nested"] ELSE Absent

DoRecenter ==
    /\ At("DoRecenter")
    /\ \E h \in {hs[cur]}, n \in {NoRebinOf(cur)} :
         IF n.pc = "absent"
         THEN Fail(cur, "DoRecenter", "AttributeError: GetMe1D")
         ELSE \E h2 \in {[h EXCEPT
                            !.cf_recentered = Recenter(h.cf, n.me_1d, TRUE),
                            !.cf_reweighted_recentered =
                                IF h.do_reweight
                                THEN Recenter(h.cf_reweighted, n.me_1d_reweighted, TRUE)
                                ELSE h.cf_reweighted_recentered]} :
                Finish("DoRecenter", h2)
    /\ UNCHANGED <<sample, heap, args, out, sweepVars, restVars>>

\* every member DoRescale replaces, rescaled by f along axis 0
Rescaled(h, f) ==
    [h EXCEPT
       !.se_1d = RescaleHist(h.se_1d, f, 0),
       !.se_1d_normalized = RescaleHist(h.se_1d_normalized, f, 0),
       !.me_1d = RescaleHist(h.me_1d, f, 0),
       !.me_1d_normalized = RescaleHist(h.me_1d_normalized, f, 0),
       !.cf = RescaleHist(h.cf, f, 0),
       !.se_2d = IF h.do_reweight THEN RescaleHist(h.se_2d, f, 0) ELSE h.se_2d,
       !.me_2d = IF h.do_reweight THEN RescaleHist(h.me_2d, f, 0) ELSE h.me_2d,
       !.me_1d_reweighted =
           IF h.do_reweight THEN RescaleHist(h.me_1d_reweighted, f, 0)
           ELSE h.me_1d_reweighted,
       !.cf_reweighted =
           IF h.do_reweight THEN RescaleHist(h.cf_reweighted, f, 0)
           ELSE h.cf_reweighted,
       !.cf_recentered =
           IF h.do_rebin THEN RescaleGraph(h.cf_recentered, f) ELSE h.cf_recentered,
       !.cf_reweighted_recentered =
           IF h.do_rebin /\ h.do_reweight
           THEN RescaleGraph(h.cf_reweighted_recentered, f)
           ELSE h.cf_reweighted_recentered]

DoRescale ==
    /\ At("DoRescale")
    /\ \E h \in {hs[cur]} :
         IF RescaleHistRaises(h.se_1d_normalized, 0)
         THEN Fail(cur, "DoRescale", "AttributeError: InheritsFrom")
         ELSE \E h2 \in {Rescaled(h, h.rescale_kstar)} :
                Finish("DoRescale", h2)
    /\ UNCHANGED <<sample, heap, args, out, sweepVars, restVars>>

\* the members ManageHistograms calls SetDirectory(0) on
ManagedMembers(h) ==
    (IF h.inheritsTH1
     THEN <<heap[h.se], heap[h.me]>>
          \o (IF h.do_ranges THEN <<h.se_inRange, h.me_inRange>> ELSE <<>>)
     ELSE <<>>)
    \o <<h.se_2d, h.me_2d, h.se_1d, h.se_1d_normalized, h.me_1d,
         h.me_1d_normalized, h.cf>>
    \o (IF h.do_reweight
        THEN <<h.me_2d_reweighted, h.me_1d_reweighted,
               h.me_1d_reweighted_normalized, h.cf_reweighted>>
        ELSE <<>>)

ManageHistograms ==
    /\ At("ManageHistograms")
    /\ \E h \in {hs[cur]} :
       \E members \in {ManagedMembers(h)} :
         IF \E i \in 1 .. Len(members) : IsNone(members[i])
         THEN Fail(cur, "ManageHistograms", "AttributeError: SetDirectory")
         ELSE Finish("ManageHistograms", h)
    /\ UNCHANGED <<sample, heap, args, out, sweepVars, restVars>>

\* one object added to a directory of the output: the member and whether it is None
Entry(h, member) == [art |-> member, null |-> IsNone(h[member])]

SaveOutputSmall(h) ==
    <<Entry(h, "se_1d"), Entry(h, "me_1d")>>
    \o (IF h.do_reweight THEN <<Entry(h, "me_1d_reweighted")>> ELSE <<>>)
    \o <<Entry(h, "cf")>>

SaveDirSE(h) ==
    <<[art |-> "se", null |-> IsNone(heap[h.se])]>>
    \o (IF h.do_ranges THEN <<Entry(h, "se_inRange")>> ELSE <<>>)
    \o (IF h.do_reweight THEN <<Entry(h, "se_2d")>> ELSE <<>>)
    \o <<Entry(h, "se_1d"), Entry(h, "se_1d_normalized")>>

SaveDirME(h) ==
    <<[art |-> "me", null |-> IsNone(heap[h.me])]>>
    \o (IF h.do_ranges THEN <<Entry(h, "me_inRange")>> ELSE <<>>)
    \o (IF h.do_reweight
        THEN <<Entry(h, "me_2d"), Entry(h, "me_2d_reweighted")>> ELSE <<>>)
    \o <<Entry(h, "me_1d"), Entry(h, "me_1d_normalized")>>
    \o (IF h.do_reweight
        THEN <<Entry(h, "me_1d_reweighted"), Entry(h, "me_1d_reweighted_normalized")>>
        ELSE <<>>)

SaveDirCFAlways(h) ==
    <<Entry(h, "cf")>>
    \o (IF h.do_reweight THEN <<Entry(h, "cf_reweighted")>> ELSE <<>>)
    \o <<Entry(h, "cf_recentered")>>
    \o (IF h.do_reweight THEN <<Entry(h, "cf_reweighted_recentered")>> ELSE <<>>)

SaveDirCF(h) ==
    <<Entry(h, "cf")>>
    \o (IF h.do_reweight THEN <<Entry(h, "cf_reweighted")>> ELSE <<>>)
    \o (IF h.do_rebin
        THEN <<Entry(h, "cf_recentered")>>
             \o (IF h.do_reweight THEN <<Entry(h, "cf_reweighted_recentered")>> ELSE <<>>)
        ELSE <<>>)

SaveOutputTree(h, noRebin) ==
    [SE |-> SaveDirSE(h), ME |-> SaveDirME(h), CF |-> SaveDirCF(h),
     No_Rebin |-> IF h.do_rebin THEN SaveOutputSmall(noRebin) ELSE <<>>,
     written |-> TRUE]

\* _ProcessHandler: Handler.SaveOutput(HandlerOutputDir) once FinalTouch returned
SaveOutput ==
    /\ cur = "outer"
    /\ hs["outer"].pc = "Done"
    /\ out' = SaveOutputTree(hs["outer"], hs["nested"])
    /\ hs' = [hs EXCEPT !["outer"].pc = "Saved"]
    /\ UNCHANGED <<sample, heap, args, cur, sweepVars, restVars>>

\* SteerAnalysis, sequential mode: the next configuration of the sweep (another
\* rebin factor and set of ranges) is run on the same SE/ME
NextConfiguration ==
    /\ hs["outer"].pc \in {"raised", "Error", "Saved"}
    /\ \E rebin \in RebinChoices, ranges \in RangeChoices :
         args' = [args EXCEPT !.rebin_kstar = rebin, !.ranges = ranges]
    /\ hs' = [n \in {"outer", "nested"} |-> Absent]
    /\ heap' = [r \in Refs |-> IF r \in OwnRefs THEN None ELSE heap[r]]
    /\ out' = NoTree
    /\ UNCHANGED <<sample, cur, sweepVars, restVars>>

Next ==
    \/ Construct
    \/ FinalTouch
    \/ DoNoRebin
    \/ DoRebin
    \/ DoRanges
    \/ DoProjections
    \/ DoProjectionsWithRw
    \/ DoCorrelations
    \/ DoNormalizations
    \/ DoRecenter
    \/ DoRescale
    \/ ManageHistograms
    \/ SaveOutput
    \/ NextConfiguration

Spec == Init /\ [][Next]_vars

(***************************************************************************)
(* AnalysisHandler: the sweep over rebin factors and ranges                *)
(***************************************************************************)
\* (variant: the last pair of edges is left out)
SplitRangeShort(r) ==
    IF Len(r) <= 2 THEN <<r>> ELSE [i \in 1 .. Len(r) - 2 |-> <<r[i], r[i + 1]>>]

\* one axis of "Bins": the list itself if it has at most two edges, else the
\* pairs of consecutive edges
SplitRange(r) ==
    IF Len(r) <= 2 THEN <<r>> ELSE [i \in 1 .. Len(r) - 1 |-> <<r[i], r[i + 1]>>]

RECURSIVE Flatten(_)
Flatten(ss) == IF ss = <<>> THEN <<>> ELSE Head(ss) \o Flatten(Tail(ss))

ProductWith(front, last) ==
    Flatten([p \in 1 .. Len(front) |->
               [x \in 1 .. Len(last) |-> Append(front[p], last[x])]])

\* itertools.product(*ranges): the last axis runs fastest
RECURSIVE Product(_)
Product(ranges) ==
    IF ranges = <<>> THEN << <<>> >>
    ELSE ProductWith(Product(SubSeq(ranges, 1, Len(ranges) - 1)), ranges[Len(ranges)])

\* str(i) of an integer, character by character
RECURSIVE Digits(_)
Digits(n) ==
    IF n < 10 THEN <<<<"0", "1", "2", "3", "4", "5", "6", "7", "8", "9">>[n + 1]>>
    ELSE Digits(n \div 10) \o Digits(n % 10)
Str(i) == IF i < 0 THEN <<"-">> \o Digits(-i) ELSE Digits(i)

\* f"_Dim_{i}-{str(e[0])}-{str(e[1])}" for the axes that have a range; i counts from 0
RECURSIVE DimParts(_, _)
DimParts(ranges, i) ==
    IF i >= Len(ranges) THEN <<>>
    ELSE (IF ranges[i + 1] = <<>> THEN <<>>
          ELSE <<"_Dim_">> \o Str(i) \o <<"-">> \o Str(ranges[i + 1][1])
               \o <<"-">> \o Str(ranges[i + 1][2]))
         \o DimParts(ranges, i + 1)

\* a name is the sequence of the pieces the f-strings put together
_GetConfigName(rebin, ranges) ==
    (IF rebin = 1 THEN <<"NoRebin">> ELSE <<"Rebin_">> \o Str(rebin)) \o DimParts(ranges, 0)

ConfigsOver(range_list, rebin_list) ==
    Flatten([b \in 1 .. Len(rebin_list) |->
               [k \in 1 .. Len(range_list) |->
                  [Name |-> _GetConfigName(rebin_list[b], range_list[k]),
                   Rebin |-> rebin_list[b],
                   Ranges |-> range_list[k]]]])

\* the configurations _GenerateConfigurations appends to _config_list
_GenerateConfigurations(range_list, rebin_list) ==
    ConfigsOver(IF range_list # <<>>
                THEN Product([d \in 1 .. Len(range_list) |-> SplitRange(range_list[d])])
                ELSE << <<>> >>,
                rebin_list)

\* the ranges of a configuration as the handler takes them
RangesOf(config) ==
    [d \in 1 .. Len(config.Ranges) |->
       IF config.Ranges[d] = <<>> THEN <<>>
       ELSE <<RI(config.Ranges[d][1]), RI(config.Ranges[d][2])>>]

\* TFileMerger: the files' directories of one name become one directory, which
\* holds what each of them held
MergedFrom(files) ==
    [written |-> TRUE,
     dirs |-> [n \in {files[i].dir : i \in 1 .. Len(files)} |->
                 {files[i].path : i \in {j \in 1 .. Len(files) : files[j].dir = n}}]]

BinsChoices ==
    {<<>>, <<<<0, 1, 2, 3>>>>, <<<<0, 1, 2, 3>>, <<>>>>, <<<<1, 3>>, <<>>>>,
     <<<<0, 2, 4>>, <<0, 1, 2>>>>, <<<<0, 2, 1>>, <<>>>>}
RebinListChoices == {<<1>>, <<1, 2>>, <<2, 2>>}
MaxCalls == 2
MaxWorkers == 2
\* the options of the analysis that every configuration of a sweep shares
AnalysisChoices ==
    {a \in ArgsChoices :
       /\ a.rebin_kstar = 1 /\ a.ranges = <<>>
       /\ a.axis_kstar = 0
       /\ a.normalization_range = <<<<1, 2>>, <<7, 2>>>>
       /\ a.rescale_kstar = RI(2)}

SweepInit ==
    /\ sample \in {"E", "A"}
    /\ heap = [r \in Refs |->
                 IF r = "callerSe" THEN SampleSe(sample)
                 ELSE IF r = "callerMe" THEN SampleMe(sample)
                 ELSE None]
    /\ args \in AnalysisChoices
    /\ hs = [n \in {"outer", "nested"} |-> Absent]
    /\ cur = "outer"
    /\ out = NoTree
    /\ steer = "start"
    /\ _range_list \in BinsChoices
    /\ _rebin_list \in RebinListChoices
    /\ _config_list = <<>>
    /\ index = 0
    /\ _output_path_list = <<>>
    /\ merged = NoFile
    /\ NoCall
    /\ RangesIdle
    /\ MergerIdle

\* (variant: the file name has no index in front)
OutputPathShared(dir, i) == <<dir, 0>>

\* os.path.join(tmp_dir, f"{index}_" + basename(output file name))
OutputPath(dir, i) == <<dir, i>>

\* the workers of the pool take the configurations in the order of submission,
\* at most `workers` at a time: those in flight are the first `workers`
\* unfinished ones
Pending == [path |-> <<>>, dir |-> <<"pending">>, tree |-> NoTree]
Failed == [path |-> <<>>, dir |-> <<"failed">>, tree |-> NoTree]
Unfinished(futs) == {i \in 1 .. Len(futs) : futs[i] = Pending}
InFlight(futs, w) ==
    {i \in Unfinished(futs) : Cardinality({j \in Unfinished(futs) : j < i}) < w}

IsFile(f) == f \notin {Pending, Failed}
OnDisk(f) == tmp_dir.exists /\ f.path \in tmp_dir.files

\* (variant: a result is put behind the results that came before it)
StoredAsCompleted(futs, i, file) ==
    [futs EXCEPT ![Len(futs) - Cardinality(Unfinished(futs)) + 1] = file]

\* executor.map keeps the future of the i-th submission at position i: its
\* result is the i-th of the list
Stored(futs, i, file) == [futs EXCEPT ![i + 1] = file]

\* SteerAnalysis up to its loop: the histograms are set, the configurations
\* are generated, the temporary directory is made
GenerateConfigurations ==
    /\ steer = "start"
    /\ calls < MaxCalls
    /\ calls' = calls + 1
    /\ \E p \in BOOLEAN, w \in 1 .. MaxWorkers :
         /\ parallel' = p
         /\ workers' = IF p THEN w ELSE 0
    /\ _config_list' = _config_list \o _GenerateConfigurations(_range_list, _rebin_list)
    /\ futures' = IF parallel' THEN [i \in 1 .. Len(_config_list') |-> Pending] ELSE <<>>
    /\ processed' = [i \in 1 .. Len(_config_list') |-> 0]
    /\ tmp_dir' = [id |-> calls', exists |-> TRUE, files |-> {}]
    /\ index' = 0
    /\ steer' = "loop"
    /\ UNCHANGED <<sample, heap, args, hs, cur, out, _range_list, _rebin_list,
                   _output_path_list, merged, restVars>>

\* _ProcessHandler(i) is called, by the loop for the next i, by a worker for a
\* configuration in flight: a handler for configuration i is about to be
\* constructed
ProcessHandler ==
    /\ steer = "loop"
    /\ \E i \in 0 .. Len(_config_list) - 1 :
         /\ IF parallel THEN i + 1 \in InFlight(futures, workers) ELSE i = index
         /\ index' = i
         /\ \E config \in {_config_list[i + 1]} :
              args' = [args EXCEPT !.rebin_kstar = config.Rebin,
                                   !.ranges = RangesOf(config)]
    /\ hs' = [n \in {"outer", "nested"} |-> Absent]
    /\ heap' = [r \in Refs |-> IF r \in OwnRefs THEN None ELSE heap[r]]
    /\ out' = NoTree
    /\ cur' = "outer"
    /\ steer' = "run"
    /\ processed' = [processed EXCEPT ![index' + 1] = @ + 1]
    /\ UNCHANGED <<sample, _range_list, _rebin_list, _config_list,
                   _output_path_list, merged, calls, parallel, workers, futures,
                   tmp_dir, restVars>>

\* _ProcessHandler writes and closes the configuration's file in the temporary
\* directory, the output under a directory of the configuration's name, and
\* returns its path
ReturnOutputPath ==
    /\ steer = "run"
    /\ hs["outer"].pc = "Saved"
    /\ \E file \in {[path |-> OutputPath(tmp_dir.id, index),
                     dir |-> _config_list[index + 1].Name, tree |-> out]} :
         /\ tmp_dir' = [tmp_dir EXCEPT !.files = @ \cup {file.path}]
         /\ IF parallel
            THEN /\ futures' = Stored(futures, index, file)
                 /\ UNCHANGED <<_output_path_list, index>>
            ELSE /\ _output_path_list' = Append(_output_path_list, file)
                 /\ index' = index + 1
                 /\ UNCHANGED futures
    /\ steer' = "loop"
    /\ UNCHANGED <<sample, heap, args, hs, cur, out, _range_list, _rebin_list,
                   _config_list, merged, calls, parallel, workers, processed,
                   restVars>>

\* an exception of the constructor or of FinalTouch in a worker process is
\* kept in the future of the configuration
WorkerRaises ==
    /\ steer = "run"
    /\ parallel
    /\ hs["outer"].pc \in {"raised", "Error"}
    /\ futures' = Stored(futures, index, Failed)
    /\ steer' = "loop"
    /\ UNCHANGED <<sample, heap, args, hs, cur, out, _range_list, _rebin_list,
                   _config_list, index, _output_path_list, merged, calls, parallel,
                   workers, processed, tmp_dir, restVars>>

\* an exception of the constructor or of FinalTouch leaves SteerAnalysis: from
\* the loop at once, from executor.map when the results are taken in order and
\* the first failed one is reached; the temporary directory is removed on the
\* way out
SteerAnalysisRaises ==
    /\ IF parallel
       THEN /\ steer = "loop"
            /\ \E i \in 1 .. Len(futures) :
                 /\ futures[i] = Failed
                 /\ \A j \in 1 .. i - 1 : IsFile(futures[j])
       ELSE /\ steer = "run"
            /\ hs["outer"].pc \in {"raised", "Error"}
    /\ tmp_dir' = [tmp_dir EXCEPT !.exists = FALSE, !.files = {}]
    /\ steer' = "failed"
    /\ UNCHANGED <<sample, heap, args, hs, cur, out, _range_list, _rebin_list,
                   _config_list, index, _output_path_list, merged, calls, parallel,
                   workers, futures, processed, restVars>>

\* self._output_path_list = list(executor.map(...)) once every worker returned
CollectOutputPaths ==
    /\ steer = "loop"
    /\ parallel
    /\ \A i \in 1 .. Len(futures) : IsFile(futures[i])
    /\ _output_path_list' = futures
    /\ steer' = "collected"
    /\ UNCHANGED <<sample, heap, args, hs, cur, out, _range_list, _rebin_list,
                   _config_list, index, merged, callVars, restVars>>

\* TFileMerger: AddFile for every path of the list (a path that cannot be
\* opened is not added), then Merge
MergeOutputs ==
    /\ IF parallel THEN steer = "collected"
       ELSE steer = "loop" /\ index = Len(_config_list)
    /\ merged' = MergedFrom(SelectSeq(_output_path_list, OnDisk))
    /\ steer' = "merged"
    /\ UNCHANGED <<sample, heap, args, hs, cur, out, _range_list, _rebin_list,
                   _config_list, index, _output_path_list, callVars, restVars>>

\* the with block is left: the temporary directory is removed, SteerAnalysis
\* returns and may be called again
SteerAnalysisReturns ==
    /\ steer = "merged"
    /\ tmp_dir' = [tmp_dir EXCEPT !.exists = FALSE, !.files = {}]
    /\ steer' = "start"
    /\ UNCHANGED <<sample, heap, args, hs, cur, out, _range_list, _rebin_list,
                   _config_list, index, _output_path_list, merged, calls, parallel,
                   workers, futures, processed, restVars>>

SweepNext ==
    \/ GenerateConfigurations
    \/ ProcessHandler
    \/ Construct
    \/ FinalTouch
    \/ DoNoRebin
    \/ DoRebin
    \/ DoRanges
    \/ DoProjections
    \/ DoProjectionsWithRw
    \/ DoCorrelations
    \/ DoNormalizations
    \/ DoRecenter
    \/ DoRescale
    \/ ManageHistograms
    \/ SaveOutput
    \/ ReturnOutputPath
    \/ WorkerRaises
    \/ SteerAnalysisRaises
    \/ CollectOutputPaths
    \/ MergeOutputs
    \/ SteerAnalysisReturns

SweepSpec == SweepInit /\ [][SweepNext]_vars

(***************************************************************************)
(* SetHistRanges on its own: the ranges of a sweep over one axis           *)
(***************************************************************************)
Ax1 == MkAxis(1, RI(0), RI(1))

\* a 4-dimensional sparse histogram with content k in bin k of its first axis
Fill4(axk) ==
    LET axes == <<axk, Ax1, Ax1, Ax1>>
        f == [t \in CellsOf(axes) |-> IF InnerCell(axes, t) THEN RI(t[1]) ELSE R0]
    IN  MkHist("THnSparse", axes, f, f)

\* histograms of the three branches of SetHistRanges that set a range
HistChoices ==
    {Fill1("TH1", AxK4, <<1, 2, 3, 4>>), SampleSe("A"), Fill4(AxK4)}

\* lo <= hi on the half-integers of the axis, and edge lists on bin boundaries
BinsChoices1d ==
    {<<<<i, 2>>, <<j, 2>>>> : i \in {1, 3, 5, 7}, j \in {1, 3, 5, 7}}
    \cup {<<RI(i), <<j, 2>>>> : i \in 0 .. 4, j \in {1, 3, 5, 7}}
    \cup {<<<<i, 2>>, RI(j)>> : i \in {1, 3, 5, 7}, j \in 0 .. 4}
    \cup {<<RI(i), RI(j)>> : i \in 0 .. 4, j \in 0 .. 4}
    \cup {<<RI(0), RI(1), RI(2), RI(3)>>, <<RI(0), RI(2), RI(4)>>,
          <<RI(1), RI(2), RI(3), RI(4)>>, <<RI(0), RI(1), RI(2), RI(3), RI(4)>>}

RangesInit ==
    /\ sample = "E"
    /\ heap = [r \in Refs |-> None]
    /\ args \in {a \in ArgsChoices : a = [normalization_range |-> <<>>, rebin_kstar |-> 1,
                                         rescale_kstar |-> RI(-1), axis_kstar |-> 0,
                                         axis_reweight |-> -1, ranges |-> <<>>]}
    /\ hs = [n \in {"outer", "nested"} |-> Absent]
    /\ cur = "outer"
    /\ out = NoTree
    /\ steer = "idle"
    /\ _range_list = <<>>
    /\ _rebin_list = <<1>>
    /\ _config_list = <<>>
    /\ index = 0
    /\ _output_path_list = <<>>
    /\ merged = NoFile
    /\ NoCall
    /\ hist \in HistChoices
    /\ bins \in {b \in BinsChoices1d : \A i \in 1 .. Len(b) - 1 : RLe(b[i], b[i + 1])}
    /\ applied_ranges = <<>>
    /\ hist_inRange = None
    /\ MergerIdle

\* the ranges of one configuration: a candidate range on the first axis, no
\* restriction on the others
RangesOver(h, cut) == [d \in 1 .. Len(h.axes) |-> IF d = 1 THEN cut ELSE <<>>]

\* DoRanges on a clone of the histogram, for one candidate range of the sweep
ApplySetHistRanges ==
    /\ ~IsNone(hist)
    /\ \E i \in 1 .. Len(SplitRange(bins)) :
       \E r \in {RangesOver(hist, SplitRange(bins)[i])} :
         /\ r # applied_ranges
         /\ applied_ranges' = r
         /\ hist_inRange' = SetHistRanges(Clone(hist), r)
    /\ UNCHANGED <<pipelineVars, sweepVars, hist, bins, mergerVars>>

RangesNext == ApplySetHistRanges

RangesSpec == RangesInit /\ [][RangesNext]_vars

(***************************************************************************)
(* FemtoMerger: rootcp of every input into a temporary file, then hadd     *)
(***************************************************************************)
MaxInputs == 3

\* an entry "file.root:dir" whose file exists and holds dir, one whose file
\* does not exist, one without ':', one whose directory rootcp does not find
EntryKinds == {"good", "missing", "nocolon", "nodir"}

\* os.path.join(tmpdir, f"input_{i}.root")
TmpFile(i) == <<"input_", i>>
NoTmpFile == <<>>

\* _copy_single_file returns the temporary file, or raises: _split ValueError,
\* RuntimeError for a file that does not exist, CalledProcessError of rootcp
CopyResult(entry, i) ==
    IF entry = "good" THEN [state |-> "done", file |-> TmpFile(i)]
    ELSE [state |-> "failed", file |-> NoTmpFile]
PendingCopy == [state |-> "pending", file |-> NoTmpFile]

\* the threads take the submitted copies in order, mergeJobs at a time
CopiesInFlight(futs, jobs) ==
    {i \in DOMAIN futs :
       /\ futs[i].state = "pending"
       /\ Cardinality({j \in DOMAIN futs : j < i /\ futs[j].state = "pending"}) < jobs}

\* (variant: tmp_inputs.append(future.result()))
AssignedBehind(tmp, i, file) ==
    [tmp EXCEPT ![Cardinality({k \in DOMAIN tmp : tmp[k] # NoTmpFile}) + 1] = file]

\* tmp_inputs[i] = future.result()
Assigned(tmp, i, file) == [tmp EXCEPT ![i + 1] = file]

MergerInit ==
    /\ sample = "E"
    /\ heap = [r \in Refs |-> None]
    /\ args \in {a \in ArgsChoices : a = [normalization_range |-> <<>>, rebin_kstar |-> 1,
                                         rescale_kstar |-> RI(-1), axis_kstar |-> 0,
                                         axis_reweight |-> -1, ranges |-> <<>>]}
    /\ hs = [n \in {"outer", "nested"} |-> Absent]
    /\ cur = "outer"
    /\ out = NoTree
    /\ steer = "idle"
    /\ _range_list = <<>>
    /\ _rebin_list = <<1>>
    /\ _config_list = <<>>
    /\ index = 0
    /\ _output_path_list = <<>>
    /\ merged = NoFile
    /\ NoCall
    /\ RangesIdle
    /\ inputs \in UNION {[1 .. n -> EntryKinds] : n \in 1 .. MaxInputs}
    /\ overwrite \in BOOLEAN
    /\ mergeJobs \in 1 .. MaxWorkers
    /\ out_file \in [exists : BOOLEAN, written : {FALSE}]
    /\ merge = "called"
    /\ copies = <<>>
    /\ order = <<>>
    /\ tmp_inputs = <<>>
    /\ hadd = <<>>

\* merge() up to the submission of the copy tasks: nothing is done when the
\* output exists and overwrite is off
SubmitCopies ==
    /\ merge = "called"
    /\ IF out_file.exists /\ ~overwrite
       THEN /\ merge' = "skipped"
            /\ UNCHANGED <<copies, tmp_inputs>>
       ELSE /\ merge' = "copying"
            /\ tmp_inputs' = [i \in 1 .. Len(inputs) |-> NoTmpFile]
            /\ copies' = [i \in 1 .. Len(inputs) |-> PendingCopy]
    /\ UNCHANGED <<pipelineVars, sweepVars, rangeVars, inputs, overwrite, mergeJobs,
                   out_file, order, hadd>>

\* a thread of the pool finishes _copy_single_file for an entry
CopySingleFile ==
    /\ merge \in {"copying", "raised"}
    /\ \E i \in CopiesInFlight(copies, mergeJobs) :
         copies' = [copies EXCEPT ![i] = CopyResult(inputs[i], i - 1)]
    /\ UNCHANGED <<pipelineVars, sweepVars, rangeVars, inputs, overwrite, mergeJobs,
                   out_file, merge, order, tmp_inputs, hadd>>

\* the loop over as_completed(futures) takes a finished future: its result
\* goes to tmp_inputs[i], its exception leaves merge()
AsCompleted ==
    /\ merge = "copying"
    /\ \E i \in DOMAIN copies :
         /\ copies[i].state # "pending"
         /\ \A k \in DOMAIN order : order[k] # i - 1
         /\ order' = Append(order, i - 1)
         /\ IF copies[i].state = "failed"
            THEN merge' = "raised" /\ UNCHANGED tmp_inputs
            ELSE /\ tmp_inputs' = Assigned(tmp_inputs, i - 1, copies[i].file)
                 /\ UNCHANGED merge
    /\ UNCHANGED <<pipelineVars, sweepVars, rangeVars, inputs, overwrite, mergeJobs,
                   out_file, copies, hadd>>

\* after the loop: hadd -f... -j mergeJobs out_file + tmp_inputs
Hadd ==
    /\ merge = "copying"
    /\ Len(order) = Len(copies)
    /\ hadd' = tmp_inputs
    /\ out_file' = [exists |-> TRUE, written |-> TRUE]
    /\ merge' = "merged"
    /\ UNCHANGED <<pipelineVars, sweepVars, rangeVars, inputs, overwrite, mergeJobs,
                   copies, order, tmp_inputs>>

MergerNext ==
    \/ SubmitCopies
    \/ CopySingleFile
    \/ AsCompleted
    \/ Hadd

MergerSpec == MergerInit /\ [][MergerNext]_vars

(***************************************************************************)
(* Properties                                                              *)
(***************************************************************************)
Outer == hs["outer"]
Nested == hs["nested"]
Built(h) == h.pc \notin {"absent", "raised"}
Completed(h) == h.pc \in {"Done", "Saved"}
HasRun(h, step) == \E i \in 1 .. Len(h.log) : h.log[i] = step
JustRan(h, step) == Len(h.log) > 0 /\ h.log[Len(h.log)] = step
IsPrefix(p, q) == Len(p) <= Len(q) /\ \A i \in 1 .. Len(p) : p[i] = q[i]
Opt(on, steps) == IF on THEN steps ELSE <<>>
DimOf(id) == Len(SampleSe(id).axes)

\* the steps the options a switch on, in the order the pipeline is specified
\* to take them (ManageHistograms is the closing bookkeeping before Done)
ExpectedSteps(a) ==
    Opt(a.rebin_kstar > 1, <<"DoNoRebin", "DoRebin">>)
    \o Opt(a.ranges # <<>>, <<"DoRanges">>)
    \o <<"DoProjections">>
    \o Opt(a.axis_reweight >= 0, <<"DoProjectionsWithRw">>)
    \o <<"DoCorrelations">>
    \o Opt(Len(a.normalization_range) = 2, <<"DoNormalizations">>)
    \o Opt(a.rebin_kstar > 1, <<"DoRecenter">>)
    \o Opt(RLt(R0, a.rescale_kstar), <<"DoRescale">>)
    \o <<"ManageHistograms">>

InOrder(h, a) ==
    /\ IsPrefix(h.log, ExpectedSteps(a))
    /\ Completed(h) => h.log = ExpectedSteps(a)

\* C1: in every FinalTouch run (of the handler and of its nested no-rebin
\* handler) the steps executed so far are an initial part of the enabled steps
\* in the order Rebin (after the nested pipeline was built and run), ApplyRanges,
\* Project1D, Project2D+Reweight, Divide, Normalize, Recenter, Rescale; each at
\* most once, a disabled step never; a run that reaches Done executed all of them.
C1_StepOrder ==
    /\ Built(Outer) => InOrder(Outer, args)
    /\ Built(Nested) => InOrder(Nested, [args EXCEPT !.rebin_kstar = 0])
    /\ (Built(Outer) /\ HasRun(Outer, "DoRebin")) => Nested.pc = "Done"

C1_Witness ==
    /\ Outer.pc = "Done"
    /\ Len(Outer.log) = Len(FinalTouchOrder)
    /\ Nested.pc = "Done"

\* the configuration is valid in the sense of the data model: SE and ME of one
\* class and dimension, axis roles inside the dimension, rebin factor >= 1, well-formed ranges, one range per axis
ValidRange(r) == r = <<>> \/ RLe(r[1], r[2])
ValidConfiguration(id, a) ==
    /\ SampleSe(id).cls = SampleMe(id).cls
    /\ Len(SampleMe(id).axes) = DimOf(id)
    /\ a.axis_kstar \in 0 .. DimOf(id) - 1
    /\ a.axis_reweight >= 0 =>
         /\ DimOf(id) > 1
         /\ a.axis_reweight \in 0 .. DimOf(id) - 1
         /\ a.axis_reweight # a.axis_kstar
    /\ a.rebin_kstar >= 1
    /\ ValidRange(a.normalization_range)
    /\ a.ranges # <<>> =>
         /\ Len(a.ranges) = DimOf(id)
         /\ \A d \in 1 .. Len(a.ranges) : ValidRange(a.ranges[d])

\* C2: a valid configuration without a reweight axis never raises: neither the
\* constructor nor FinalTouch ends in an error.
C2_NoReweightCompletes ==
    (ValidConfiguration(sample, args) /\ args.axis_reweight < 0)
        => Outer.pc \notin {"raised", "Error"}

\* C3: the caller's SE and ME keep the binning, contents and variances they had
\* before construction, whatever the pipeline did (in-place rebinning, nested
\* handler), so the pipeline of every configuration of a sweep starts from the
\* same unmodified pair.
C3_CallerUnchanged ==
    /\ heap["callerSe"] = SampleSe(sample)
    /\ heap["callerMe"] = SampleMe(sample)
    /\ Outer.pc = "Constructed" =>
         /\ heap[Outer.se] = SampleSe(sample)
         /\ heap[Outer.me] = SampleMe(sample)

C3_Witness ==
    /\ Outer.pc = "Saved"
    /\ Outer.inheritsTH1
    /\ HasRun(Outer, "DoRebin")
    /\ heap[Outer.se].axes # SampleSe(sample).axes

Handlers == {"outer", "nested"}
ColumnSum(h2d, w) ==
    RSum([x \in 1 .. NbinsOf(h2d, 0) |-> h2d.c[<<x, w>>]], 1, NbinsOf(h2d, 0))

\* C4: in the output of Reweight2d every reweight-axis bin w, first through
\* last, whose SE and ME slice integrals are both positive has the column sum
\* over the correlation axis equal to the SE slice integral.
C4_ReweightPreservesSeIntegral ==
    \A who \in Handlers :
        (Built(hs[who]) /\ ~IsNone(hs[who].me_2d_reweighted)) =>
            \A w \in 1 .. NbinsOf(hs[who].se_2d, 1) :
                (RLt(R0, ColumnSum(hs[who].se_2d, w)) /\ RLt(R0, ColumnSum(hs[who].me_2d, w)))
                    => ColumnSum(hs[who].me_2d_reweighted, w) = ColumnSum(hs[who].se_2d, w)

\* the fine bins under merged bin b, their content sum, weighted mean and spread
FineBins(b, r) == ((b - 1) * r + 1) .. (b * r)
FineSum(me, b, r) == RSumSet([j \in FineBins(b, r) |-> me.c[<<j>>]], FineBins(b, r))
FineMean(me, b, r) ==
    RDiv(RSumSet([j \in FineBins(b, r) |->
                    RMul(GetBinCenter(me.axes[1], j), me.c[<<j>>])], FineBins(b, r)),
         FineSum(me, b, r))
FineSpread2(me, b, r) ==
    RDiv(RSumSet([j \in FineBins(b, r) |->
                    RMul(me.c[<<j>>],
                         RSq(RSub(GetBinCenter(me.axes[1], j), FineMean(me, b, r))))],
                 FineBins(b, r)),
         FineSum(me, b, r))
FilledBins(cf, me, r) == {b \in 1 .. cf.axes[1].n : RLt(R0, FineSum(me, b, r))}
NthFilled(cf, me, r, i) ==
    CHOOSE b \in FilledBins(cf, me, r) :
        Cardinality({c \in FilledBins(cf, me, r) : c < b}) = i - 1
IsFlat(me, b, r) == \A j \in FineBins(b, r) : me.c[<<j>>] = me.c[<<(b - 1) * r + 1>>]
\* the middle of the stretch of the fine axis that merged bin b covers
MergedCentre(me, b, r) ==
    RDiv(RAdd(GetBinLowEdge(me.axes[1], (b - 1) * r + 1),
              GetBinUpEdge(me.axes[1], b * r)), RI(2))

\* the graph is the weighted mean and spread of the fine bins, merged bin by
\* merged bin, with the points' x stretched by the factor k
RecenteredAs(graph, cf, me, r, k) ==
    /\ Len(graph.pts) = Cardinality(FilledBins(cf, me, r))
    /\ \A i \in 1 .. Len(graph.pts) :
         LET b == NthFilled(cf, me, r, i)
         IN  /\ graph.pts[i].x = RMul(k, FineMean(me, b, r))
             /\ graph.pts[i].ex2 = RMul(RSq(k), FineSpread2(me, b, r))
             /\ graph.pts[i].y = cf.c[<<b>>]
             /\ graph.pts[i].ey2 = cf.v[<<b>>]

Recentered(h) == Built(h) /\ HasRun(h, "DoRecenter") /\ ~HasRun(h, "DoRescale")
Divisible(h) == Nested.me_1d.axes[1].n = h.cf.axes[1].n * h.rebin_kstar
ExampleMe == Fill1("TH1", AxK4, <<10, 20, 30, 40>>)

\* C5: Recenter(cf, fineMe) puts the point of every merged bin b whose r fine ME
\* bins (b-1)*r+1 .. b*r have a positive content sum at the content-weighted
\* mean of those fine bin centres, with the weighted spread as x-error (kept
\* squared); a flat group of fine bins gives the centre of the merged bin, and
\* ME [10,20,30,40] on edges 0..4 with factor 2 puts the first point at 7/6.
C5_RecenterWeightedMean ==
    (Recentered(Outer) /\ Divisible(Outer)) =>
        /\ RecenteredAs(Outer.cf_recentered, Outer.cf, Nested.me_1d, Outer.rebin_kstar, R1)
        /\ \A i \in 1 .. Len(Outer.cf_recentered.pts) :
             LET b == NthFilled(Outer.cf, Nested.me_1d, Outer.rebin_kstar, i)
             IN  IsFlat(Nested.me_1d, b, Outer.rebin_kstar) =>
                     Outer.cf_recentered.pts[i].x
                         = MergedCentre(Nested.me_1d, b, Outer.rebin_kstar)
        /\ (Nested.me_1d.c = ExampleMe.c /\ Nested.me_1d.axes = ExampleMe.axes
              /\ Outer.rebin_kstar = 2) =>
               /\ Outer.cf_recentered.pts[1].x = <<7, 6>>
               /\ Outer.cf_recentered.pts[1].x # R1

C5_Witness ==
    /\ Recentered(Outer) /\ Divisible(Outer)
    /\ Nested.me_1d.c = ExampleMe.c /\ Nested.me_1d.axes = ExampleMe.axes
    /\ Outer.rebin_kstar = 2
    /\ Len(Outer.cf_recentered.pts) = 2
    /\ Outer.cf_recentered.pts[1].x = <<7, 6>>

\* the fine ME on its unrescaled axis
Unrescaled(me, f) ==
    [me EXCEPT !.axes = <<MkAxis(me.axes[1].n, RDiv(me.axes[1].xmin, f),
                                 RDiv(me.axes[1].xmax, f))>>]

\* C6: with rebinning and a rescale factor f both active, every point of the
\* recentered correlation function the handler exposes after Rescale has
\* x = f * (weighted mean of the unrescaled fine ME bin centres) and
\* x-error = f * (unrescaled spread): f is applied exactly once.
C6_RescaleOnce ==
    (Built(Outer) /\ HasRun(Outer, "DoRescale") /\ Outer.do_rebin /\ Divisible(Outer)) =>
        RecenteredAs(Outer.cf_recentered, Outer.cf,
                     Unrescaled(Nested.me_1d, Outer.rescale_kstar),
                     Outer.rebin_kstar, Outer.rescale_kstar)

\* C7: SE = ME, 10 bins 1,2,3,4,5,5,4,3,2,1, correlation axis 0, no reweighting,
\* no cuts, rebin 1, normalization range over all bins: the run completes and
\* the correlation function is 1 in every bin after Divide and after Normalize.
EndToEndCase ==
    /\ sample = "E"
    /\ args.axis_kstar = 0 /\ args.axis_reweight < 0
    /\ args.ranges = <<>> /\ args.rebin_kstar = 1
    /\ args.normalization_range = <<<<1, 2>>, <<19, 2>>>>
AllOne(cf) == \A b \in 1 .. cf.axes[1].n : cf.c[<<b>>] = R1
C7_EndToEndUnity ==
    (EndToEndCase /\ Outer.pc # "absent") =>
        /\ Outer.pc \notin {"raised", "Error"}
        /\ HasRun(Outer, "DoCorrelations") => AllOne(Outer.cf)

\* the artifacts of a directory of the tree, and the ones the options call for
Names(dir) == {dir[i].art : i \in 1 .. Len(dir)}
NoneNull(dir) == \A i \in 1 .. Len(dir) : ~dir[i].null
NoDuplicate(dir) == Cardinality(Names(dir)) = Len(dir)
When(on, S) == IF on THEN S ELSE {}
WithRanges(a) == a.ranges # <<>>
WithReweight(a) == a.axis_reweight >= 0
WithNormalization(a) == Len(a.normalization_range) = 2
WithRebin(a) == a.rebin_kstar > 1
ApplicableSE(a) ==
    {"se", "se_1d"} \cup When(WithRanges(a), {"se_inRange"})
    \cup When(WithReweight(a), {"se_2d"})
    \cup When(WithNormalization(a), {"se_1d_normalized"})
ApplicableME(a) ==
    {"me", "me_1d"} \cup When(WithRanges(a), {"me_inRange"})
    \cup When(WithReweight(a), {"me_2d", "me_2d_reweighted", "me_1d_reweighted"})
    \cup When(WithNormalization(a), {"me_1d_normalized"})
    \cup When(WithReweight(a) /\ WithNormalization(a), {"me_1d_reweighted_normalized"})
ApplicableCF(a) ==
    {"cf"} \cup When(WithReweight(a), {"cf_reweighted"})
    \cup When(WithRebin(a), {"cf_recentered"})
    \cup When(WithRebin(a) /\ WithReweight(a), {"cf_reweighted_recentered"})
ApplicableNoRebin(a) ==
    When(WithRebin(a), {"se_1d", "me_1d", "cf"} \cup When(WithReweight(a), {"me_1d_reweighted"}))

AxisRolesOk(dim, axis_kstar, axis_reweight) ==
    /\ 0 <= axis_kstar /\ axis_kstar < dim
    /\ axis_reweight >= 0 =>
         /\ dim > 1
         /\ axis_reweight < dim
         /\ axis_reweight # axis_kstar
C9_AxisRoles ==
    /\ Built(Outer) => AxisRolesOk(Outer.dim, Outer.axis_kstar, Outer.axis_reweight)
    /\ (Outer.pc # "absent"
          /\ ~AxisRolesOk(DimOf(sample), args.axis_kstar, args.axis_reweight))
         => Outer.pc = "raised"

C11_DimensionMismatchRaises ==
    /\ (Len(SampleSe(sample).axes) # Len(SampleMe(sample).axes) /\ Outer.pc # "absent")
          => Outer.pc = "raised"
    /\ (Len(SampleSe(sample).axes) = Len(SampleMe(sample).axes) /\ Outer.pc = "raised")
          => Outer.err # "TypeError: type"

\* the errors the constructor raises for its arguments
ConfigurationErrors ==
    {"TypeError: null", "TypeError: type", "ValueError: kstar axis",
     "ValueError: NormRange", "ValueError: reweight 1D", "ValueError: reweight axis",
     "ValueError: same axis", "ValueError: ranges", "ValueError: range"}
Inverted(r) == Len(r) = 2 /\ RLt(r[2], r[1])
HasInverted(a) ==
    \/ Inverted(a.normalization_range)
    \/ \E d \in 1 .. Len(a.ranges) : Inverted(a.ranges[d])
NothingDerived ==
    /\ Nested.pc = "absent"
    /\ \A r \in OwnRefs : IsNone(heap[r])
    /\ ~out.written

\* C12: with a selection range or the normalization range given as lo > hi the
\* constructor raises, and at that point no step has run and no artifact has
\* been derived: there is no handler, no nested handler, no copy of SE/ME and
\* no output; an error of FinalTouch is never one of the constructor's
\* configuration errors.
C12_InvertedRangeRaisesAtConstruction ==
    /\ (HasInverted(args) /\ Outer.pc # "absent") =>
          /\ Outer.pc = "raised"
          /\ Outer.err \in ConfigurationErrors
          /\ DOMAIN Outer = {"pc", "err"}
          /\ NothingDerived
    /\ \A who \in Handlers :
          hs[who].pc = "Error" => hs[who].err \notin ConfigurationErrors

C12_Witness ==
    /\ \E d \in 1 .. Len(args.ranges) : Inverted(args.ranges[d])
    /\ ~Inverted(args.normalization_range)
    /\ Outer.pc = "raised"
    /\ Outer.err = "ValueError: range"
    /\ NothingDerived

\* the handler holds normalized distributions on the axis they were normalized on
Normalized(h) == Built(h) /\ HasRun(h, "DoNormalizations") /\ ~HasRun(h, "DoRescale")
NormalizedMembers(h) ==
    {h.se_1d_normalized, h.me_1d_normalized, h.cf}
    \cup When(h.do_reweight, {h.me_1d_reweighted_normalized, h.cf_reweighted})
\* Integral(LowerBin, UpperBin, "width") over the bins of the range
RangeIntegral(d, r) ==
    IntegralWidth(d, FindBin(d.axes[1], r[1]), FindBin(d.axes[1], r[2]))

\* C13: Normalize applied with the same range to a distribution it has already
\* normalized (integral in the range not zero) computes the factor 1 and returns
\* the distribution bin for bin as it was.
C13_NormalizeIdempotent ==
    \A who \in Handlers :
        Normalized(hs[who]) =>
            \A d \in NormalizedMembers(hs[who]) :
                RangeIntegral(d, hs[who].normalization_range) # R0 =>
                    /\ NormalizeFactor(d, hs[who].normalization_range) = R1
                    /\ Normalize(d, hs[who].normalization_range) = d

C13_Witness ==
    /\ Normalized(Outer)
    /\ RangeIntegral(Outer.me_1d_normalized, Outer.normalization_range) # R0
    /\ Outer.me_1d_normalized # Outer.me_1d
    /\ Normalize(Outer.me_1d_normalized, Outer.normalization_range) = Outer.me_1d_normalized

\* the width-weighted integral of d over [lo, hi]: every bin counts with the
\* part of its width that lies inside the range
RMax(a, b) == IF RLt(a, b) THEN b ELSE a
RMin(a, b) == IF RLt(a, b) THEN a ELSE b
Overlap(ax, b, lo, hi) ==
    RMax(R0, RSub(RMin(hi, GetBinUpEdge(ax, b)), RMax(lo, GetBinLowEdge(ax, b))))
RestrictedIntegral(d, lo, hi) ==
    RSumSet([b \in 1 .. d.axes[1].n |-> RMul(d.c[<<b>>], Overlap(d.axes[1], b, lo, hi))],
            1 .. d.axes[1].n)
InsideAxis(d, lo, hi) == RLe(d.axes[1].xmin, lo) /\ RLe(lo, hi) /\ RLe(hi, d.axes[1].xmax)
ScaledByRange(d, lo, hi) ==
    Scale(d, RDiv(RSub(hi, lo), RestrictedIntegral(d, lo, hi)))

\* C14: for lo <= hi inside the axis and a non-zero integral, Normalize returns
\* the distribution with every bin multiplied by (hi - lo) / I, I the
\* width-weighted integral of the distribution over [lo, hi], on bin edges or not.
C14_NormalizeFactorIsRangeOverIntegral ==
    \A who \in Handlers :
        LET h == hs[who]
            r == h.normalization_range
        IN  (Normalized(h) /\ ValidConfiguration(sample, args)
               /\ InsideAxis(h.me_1d, r[1], r[2])
               /\ RestrictedIntegral(h.me_1d, r[1], r[2]) # R0)
              => h.me_1d_normalized = ScaledByRange(h.me_1d, r[1], r[2])

\* each distribution DoNormalizations normalizes, as <<before, after>>
NormalizedPairs(h) ==
    {<<h.se_1d, h.se_1d_normalized>>, <<h.me_1d, h.me_1d_normalized>>,
     <<Divide(h.se_1d, h.me_1d), h.cf>>}
    \cup When(h.do_reweight,
              {<<h.me_1d_reweighted, h.me_1d_reweighted_normalized>>,
               <<Divide(h.se_1d, h.me_1d_reweighted), h.cf_reweighted>>})
ZeroInRange(h) ==
    {p \in NormalizedPairs(h) : RangeIntegral(p[1], h.normalization_range) = R0}

\* C15: a distribution whose integral over the normalization range is zero
\* comes out of Normalize with contents and variances unchanged, no exception
\* leaves DoNormalizations, and the pipeline goes on with its next step.
C15_ZeroIntegralLeavesUnchanged ==
    \A who \in Handlers :
        LET h == hs[who]
        IN  /\ Normalized(h) => \A p \in ZeroInRange(h) : p[2] = p[1]
            /\ (Built(h) /\ JustRan(h, "DoNormalizations") /\ ZeroInRange(h) # {})
                 => (h.pc # "Error" /\ h.pc = NextStep(h, "DoNormalizations"))
            /\ (Completed(h) /\ h.do_normalization) => HasRun(h, "DoNormalizations")

\* the ME and the correlation function have no content in the range, the SE
\* has, and the run went on to its end
C15_Witness ==
    /\ Completed(Outer) /\ HasRun(Outer, "DoNormalizations") /\ ~HasRun(Outer, "DoRescale")
    /\ RangeIntegral(Outer.me_1d, Outer.normalization_range) = R0
    /\ RangeIntegral(Outer.se_1d, Outer.normalization_range) # R0
    /\ Outer.me_1d_normalized = Outer.me_1d
    /\ Outer.se_1d_normalized # Outer.se_1d
    /\ \E b \in 1 .. Outer.me_1d.axes[1].n : Outer.me_1d.c[<<b>>] # R0

Reweighted(h) ==
    Built(h) /\ HasRun(h, "DoProjectionsWithRw") /\ ~HasRun(h, "DoRescale")
      /\ ~IsNone(h.me_2d_reweighted)
NotPositive(h2d, w) == ~RLt(R0, ColumnSum(h2d, w))
EmptyColumn(h2d, w) ==
    \A x \in 0 .. NbinsOf(h2d, 0) + 1 : h2d.c[<<x, w>>] = R0 /\ h2d.v[<<x, w>>] = R0

\* C16: in the output of Reweight2d every reweight-axis bin w whose SE slice
\* integral or ME slice integral is zero or negative has content zero in all
\* its bins; the output has the binning of me2d; se2d and me2d are as they
\* were handed in.
C16_ReweightSkipsNonPositive ==
    \A who \in Handlers :
        LET h == hs[who]
        IN  Reweighted(h) =>
              /\ \A w \in 1 .. NbinsOf(h.me_2d, 1) :
                    (NotPositive(h.se_2d, w) \/ NotPositive(h.me_2d, w))
                      => EmptyColumn(h.me_2d_reweighted, w)
              /\ h.me_2d_reweighted.axes = h.me_2d.axes
              /\ DOMAIN h.me_2d_reweighted.c = DOMAIN h.me_2d.c
              /\ h.se_2d = ProjectKstarVsRw(h, SeUsed(h))
              /\ h.me_2d = ProjectKstarVsRw(h, MeUsed(h))

\* one output with a column left empty for a negative SE integral over a
\* filled ME slice, one for a zero ME integral under a positive SE integral,
\* and a scaled column beside them
C16_Witness ==
    /\ Reweighted(Outer)
    /\ \E w \in ReweightBins(Outer.se_2d) :
         /\ RLt(ColumnSum(Outer.se_2d, w), R0) /\ RLt(R0, ColumnSum(Outer.me_2d, w))
         /\ EmptyColumn(Outer.me_2d_reweighted, w)
    /\ \E w \in ReweightBins(Outer.se_2d) :
         /\ RLt(R0, ColumnSum(Outer.se_2d, w)) /\ ColumnSum(Outer.me_2d, w) = R0
         /\ EmptyColumn(Outer.me_2d_reweighted, w)
    /\ \E w \in ReweightBins(Outer.se_2d) : ~EmptyColumn(Outer.me_2d_reweighted, w)

NonEmptyBins(cf, me, r) == {b \in 1 .. cf.axes[1].n : FineSum(me, b, r) # R0}
NthNonEmpty(cf, me, r, i) ==
    CHOOSE b \in NonEmptyBins(cf, me, r) :
        Cardinality({c \in NonEmptyBins(cf, me, r) : c < b}) = i - 1
\* the points carry y and y-error (squared) of the bins bs of cf, in
\* increasing order of the bins
CarriesBins(graph, cf, me, r, skip) ==
    /\ Len(graph.pts) = IF skip THEN Cardinality(NonEmptyBins(cf, me, r)) ELSE cf.axes[1].n
    /\ \A i \in 1 .. Len(graph.pts) :
         LET b == IF skip THEN NthNonEmpty(cf, me, r, i) ELSE i
         IN  /\ graph.pts[i].y = cf.c[<<b>>]
             /\ graph.pts[i].ey2 = cf.v[<<b>>]
HalfWidth2(ax) == RSq(RDiv(BinWidth(ax), RI(2)))
BinMiddle(ax, b) == RDiv(RAdd(GetBinLowEdge(ax, b), GetBinUpEdge(ax, b)), RI(2))

\* C17: Recenter emits its points in increasing merged-bin order, each with
\* the content and error of its own bin of cf; with skipEmptyBins true the
\* points are those of the merged bins whose fine ME sum is not zero; with
\* skipEmptyBins false every merged bin has a point, the one of a bin whose
\* fine ME sum is zero at the middle of the bin with half its width as x-error.
C17_RecenterPointsPerMergedBin ==
    (Recentered(Outer) /\ Divisible(Outer)) =>
        LET cf == Outer.cf
            me == Nested.me_1d
            r  == Outer.rebin_kstar
            all == Recenter(cf, me, FALSE)
        IN  /\ Outer.cf_recentered = Recenter(cf, me, TRUE)
            /\ CarriesBins(Outer.cf_recentered, cf, me, r, TRUE)
            /\ CarriesBins(all, cf, me, r, FALSE)
            /\ \A b \in (1 .. cf.axes[1].n) \ NonEmptyBins(cf, me, r) :
                 /\ all.pts[b].x = BinMiddle(cf.axes[1], b)
                 /\ all.pts[b].ex2 = HalfWidth2(cf.axes[1])

\* a recentered correlation function with a point for one merged bin and none
\* for another, whose correlation function bin is not the same
C17_Witness ==
    /\ Recentered(Outer) /\ Divisible(Outer)
    /\ Len(Outer.cf_recentered.pts) > 0
    /\ Len(Outer.cf_recentered.pts) < Outer.cf.axes[1].n
    /\ Len(Recenter(Outer.cf, Nested.me_1d, FALSE).pts) = Outer.cf.axes[1].n
    /\ \E b \in 1 .. Outer.cf.axes[1].n - 1 :
         /\ FineSum(Nested.me_1d, b, Outer.rebin_kstar) = R0
         /\ FineSum(Nested.me_1d, b + 1, Outer.rebin_kstar) # R0
         /\ Outer.cf.c[<<b>>] # Outer.cf.c[<<b + 1>>]

SameBinning(ax, bx) == ax.n = bx.n /\ ax.xmin = bx.xmin /\ ax.xmax = bx.xmax
KstarFirst(h, out2d, x) ==
    /\ SameBinning(out2d.axes[1], x.axes[h.axis_kstar + 1])
    /\ SameBinning(out2d.axes[2], x.axes[h.axis_reweight + 1])
InRangeCells(x) == CellsIn(<<1 .. x.axes[1].n, 1 .. x.axes[2].n>>)
TotalContent(x) == RSumSet(x.c, InRangeCells(x))
Transposed(out2d, x) ==
    /\ \A t \in InRangeCells(x) : out2d.c[<<t[2], t[1]>>] = x.c[t]
    /\ TotalContent(out2d) = TotalContent(x)
Projected2d(h) ==
    Built(h) /\ HasRun(h, "DoProjectionsWithRw") /\ ~HasRun(h, "DoRescale")
      /\ ~IsNone(h.se_2d) /\ ValidConfiguration(sample, args)

\* C18: the 2-d projection has the correlation axis as its first and the
\* reweight axis as its second axis, whatever their indices in the input, and
\* for a 2-d input with correlation axis 1 and reweight axis 0 it is the
\* transpose of the input, out[j][i] = in[i][j] for every in-range bin, the
\* last bin of each axis included, with the total content unchanged.
C18_ProjectionTransposes ==
    \A who \in Handlers :
        LET h == hs[who]
        IN  Projected2d(h) =>
              /\ KstarFirst(h, h.se_2d, SeUsed(h))
              /\ KstarFirst(h, h.me_2d, MeUsed(h))
              /\ (h.dim = 2 /\ h.axis_kstar = 1 /\ h.axis_reweight = 0 /\ ~h.do_ranges)
                   => (Transposed(h.se_2d, SeUsed(h)) /\ Transposed(h.me_2d, MeUsed(h)))

\* the candidate ranges of an axis with edge list r
Candidates(r) ==
    IF r = <<>> THEN {<<>>}
    ELSE IF Len(r) = 2 THEN {r}
    ELSE {<<r[i], r[i + 1]>> : i \in 1 .. Len(r) - 1}
AllCandidates(range_list) == UNION {Candidates(range_list[d]) : d \in DOMAIN range_list}
\* one candidate per axis; the single 'no restriction' without any axis
Combinations(range_list) ==
    IF range_list = <<>> THEN {<<>>}
    ELSE {c \in [DOMAIN range_list -> AllCandidates(range_list)] :
            \A d \in DOMAIN range_list : c[d] \in Candidates(range_list[d])}
Positions(list, x) == {i \in DOMAIN list : list[i] = x}
Generated == calls = 1

\* C19: _GenerateConfigurations produces one configuration per element of
\* (product over the axes of the axis's candidate ranges) x (rebin factor
\* list): no restriction for an empty edge list, the range itself for two
\* edges, the k-1 consecutive pairs for k > 2 edges; [[0,1,2,3]] with rebin
\* factors [1,2] gives 6 configurations.
C19_OneConfigurationPerCombination ==
    Generated =>
        /\ Len(_config_list)
             = Cardinality(Combinations(_range_list)) * Len(_rebin_list)
        /\ \A d \in DOMAIN _range_list :
             Cardinality(Candidates(_range_list[d]))
               = IF Len(_range_list[d]) > 2 THEN Len(_range_list[d]) - 1 ELSE 1
        /\ \A k \in DOMAIN _config_list :
             /\ _config_list[k].Ranges \in Combinations(_range_list)
             /\ Positions(_rebin_list, _config_list[k].Rebin) # {}
        /\ \A c \in Combinations(_range_list), b \in DOMAIN _rebin_list :
             Cardinality({k \in DOMAIN _config_list :
                            /\ _config_list[k].Ranges = c
                            /\ _config_list[k].Rebin = _rebin_list[b]})
               = Cardinality(Positions(_rebin_list, _rebin_list[b]))
        /\ (_range_list = <<<<0, 1, 2, 3>>>> /\ _rebin_list = <<1, 2>>)
             => Len(_config_list) = 6

C19_Witness ==
    /\ Generated
    /\ _range_list = <<<<0, 1, 2, 3>>>> /\ _rebin_list = <<1, 2>>
    /\ Len(_config_list) = 6
    /\ _config_list[6].Rebin = 2 /\ _config_list[6].Ranges = <<<<2, 3>>>>

\* C20: the identifier of a configuration is a function of its rebin factor
\* and its non-empty ranges, and no two configurations of a sweep have their
\* outputs stored under one identifier: the identifiers are pairwise distinct,
\* and a sweep in which two coincide ends in an error, not in a merged output
\* that holds both under one name.
C20_IdentifiersUniqueOrError ==
    /\ \A k \in DOMAIN _config_list :
         _config_list[k].Name
           = _GetConfigName(_config_list[k].Rebin, _config_list[k].Ranges)
    /\ steer = "merged" =>
         /\ \A j, k \in DOMAIN _config_list :
              j # k => _config_list[j].Name # _config_list[k].Name
         /\ \A n \in DOMAIN merged.dirs : Cardinality(merged.dirs[n]) = 1

SameOptions(n, h) ==
    /\ n.ranges = h.ranges /\ n.do_ranges = h.do_ranges
    /\ n.axis_kstar = h.axis_kstar /\ n.axis_reweight = h.axis_reweight
    /\ n.do_reweight = h.do_reweight
    /\ n.normalization_range = h.normalization_range
    /\ n.do_normalization = h.do_normalization
Unrebinned(n) ==
    /\ heap[n.se] = heap["callerSe"] /\ heap[n.me] = heap["callerMe"]
    /\ ~HasRun(n, "DoRebin")

\* C23: with a rebin factor > 1 the nested no-rebin handler is built and has
\* run to its end before the outer handler rebins; it works on the SE/ME as
\* they were before rebinning, with the ranges, axes, normalization range and
\* reweight option of the outer handler and rebinning off; it builds no nested
\* handler of its own; its ME is the fine ME the outer Recenter reads.
C23_NoRebinBeforeRebin ==
    /\ (Built(Outer) /\ HasRun(Outer, "DoRebin")) =>
         (Nested.pc = "Done" /\ IsPrefix(<<"DoNoRebin", "DoRebin">>, Outer.log))
    /\ (Built(Outer) /\ ~Outer.do_rebin) => Nested.pc = "absent"
    /\ Built(Nested) =>
         /\ Outer.do_rebin /\ Outer.rebin_kstar > 1
         /\ SameOptions(Nested, Outer)
         /\ ~Nested.do_rebin /\ Nested.rebin_kstar = 1
         /\ Unrebinned(Nested)
         /\ ~HasRun(Nested, "DoNoRebin") /\ Nested.pc # "DoNoRebin"
         /\ cur = "nested" => Outer.log = <<"DoNoRebin">>
    /\ (Built(Outer) /\ JustRan(Outer, "DoRecenter") /\ Outer.pc # "Error") =>
         /\ Nested.pc = "Done"
         /\ Outer.cf_recentered = Recenter(Outer.cf, Nested.me_1d, TRUE)

\* the outer handler has rebinned and recentered: its SE has fewer bins than
\* the SE the finished nested handler holds
C23_Witness ==
    /\ Completed(Outer) /\ HasRun(Outer, "DoRecenter")
    /\ Nested.pc = "Done"
    /\ heap[Outer.se] # heap[Nested.se]
    /\ Nested.me_1d.axes[1].n = 2 * Outer.me_1d.axes[1].n
    /\ Len(Outer.cf_recentered.pts) > 0

(***************************************************************************)
(* C24 - C26: the bin window of a range                                    *)
(***************************************************************************)
\* the bins an axis shows
Window(ax) == IF ax.range THEN ax.first .. ax.last ELSE 1 .. ax.n

\* the bins with a part of [lo, hi] inside them
Covering(ax, cut) ==
    {b \in 0 .. ax.n + 1 :
       RLt(cut[1], GetBinUpEdge(ax, b)) /\ RLt(GetBinLowEdge(ax, b), cut[2])}

\* the bins [lo, hi] reaches, their edges included
Touching(ax, cut) ==
    {b \in 0 .. ax.n + 1 :
       RLe(cut[1], GetBinUpEdge(ax, b)) /\ RLe(GetBinLowEdge(ax, b), cut[2])}

Restricted == ~IsNone(hist_inRange)
NdPath == ~IsNone(hist) /\ GetHistDimension(hist) > 3

\* the window of the first axis under the i-th candidate range of the edge list
WindowOfPair(i) ==
    Window(SetHistRanges(Clone(hist), RangesOver(hist, SplitRange(bins)[i])).axes[1])

\* C24: a range restriction narrows the window of the restricted axis to the
\* bins covering [lo, hi], and an upper cut equal to the lower edge of bin k
\* ends the window at bin k - 1, bin k not included
C24_WindowCoversCut ==
    Restricted =>
      /\ Window(hist_inRange.axes[1]) = Covering(hist.axes[1], applied_ranges[1])
      /\ \A k \in 1 .. hist.axes[1].n + 1 :
           applied_ranges[1][2] = GetBinLowEdge(hist.axes[1], k) =>
             /\ k \notin Window(hist_inRange.axes[1])
             /\ \A b \in Window(hist_inRange.axes[1]) : b <= k - 1

\* C25: for an edge list of more than two edges on bin boundaries the windows
\* of the consecutive-pair ranges are pairwise disjoint and their union is
\* exactly the bins between the first and the last edge
C25_AdjacentWindowsPartition ==
    (~IsNone(hist) /\ Len(bins) > 2) =>
      /\ \A i, j \in 1 .. Len(bins) - 1 :
           i # j => WindowOfPair(i) \cap WindowOfPair(j) = {}
      /\ UNION {WindowOfPair(i) : i \in 1 .. Len(bins) - 1}
           = {b \in 1 .. hist.axes[1].n :
                /\ RLe(bins[1], GetBinLowEdge(hist.axes[1], b))
                /\ RLe(GetBinUpEdge(hist.axes[1], b), bins[Len(bins)])}
      /\ Restricted =>
           \E i \in 1 .. Len(bins) - 1 :
             /\ applied_ranges[1] = <<bins[i], bins[i + 1]>>
             /\ Window(hist_inRange.axes[1]) = WindowOfPair(i)
             /\ Window(hist_inRange.axes[1])
                  = {b \in 1 .. hist.axes[1].n :
                       /\ RLe(bins[i], GetBinLowEdge(hist.axes[1], b))
                       /\ RLe(GetBinUpEdge(hist.axes[1], b), bins[i + 1])}

\* the last range of a five-edge list applied on the N-dimensional path
C25_Witness ==
    /\ NdPath /\ Restricted /\ Len(bins) = 5
    /\ applied_ranges[1] = <<bins[4], bins[5]>>
    /\ Window(hist_inRange.axes[1]) = {4}

\* C26: on the N-dimensional path the window of every range lo <= hi inside
\* the axis, lo = hi on a bin edge included, is well formed and non-empty
\* (first bin <= last bin) and holds the bins covering [lo, hi]
C26_WindowWellFormed ==
    (NdPath /\ Restricted) =>
      /\ hist_inRange.axes[1].range
      /\ hist_inRange.axes[1].first <= hist_inRange.axes[1].last
      /\ Covering(hist.axes[1], applied_ranges[1]) \subseteq Window(hist_inRange.axes[1])
      /\ Window(hist_inRange.axes[1]) \subseteq Touching(hist.axes[1], applied_ranges[1])

(***************************************************************************)
(* C29: Rescale relabels every artifact over the correlation axis          *)
(***************************************************************************)
\* the exposed members binned over the correlation axis (their first axis)
KstarMembers ==
    {"se_1d", "se_1d_normalized", "me_1d", "me_1d_normalized", "se_2d", "me_2d",
     "me_2d_reweighted", "me_1d_reweighted", "me_1d_reweighted_normalized",
     "cf", "cf_reweighted"}

\* new is old with the edges of its first axis multiplied by f, the contents
\* and variances of its bins unchanged
Relabelled(old, new, f) ==
    /\ new.cls = old.cls
    /\ Len(new.axes) = Len(old.axes)
    /\ new.axes[1].n = old.axes[1].n
    /\ new.axes[1].xmin = RMul(old.axes[1].xmin, f)
    /\ new.axes[1].xmax = RMul(old.axes[1].xmax, f)
    /\ \A k \in 2 .. Len(old.axes) :
         /\ new.axes[k].n = old.axes[k].n
         /\ new.axes[k].xmin = old.axes[k].xmin
         /\ new.axes[k].xmax = old.axes[k].xmax
    /\ \A t \in CellsOf(old.axes) :
         InnerCell(old.axes, t) => (new.c[t] = old.c[t] /\ new.v[t] = old.v[t])

\* handler n takes its Rescale step and returns from it
RescaleStepOf(n) ==
    /\ Built(hs[n]) /\ hs[n].pc = "DoRescale" /\ cur = n
    /\ hs'[n].pc # "Error"
    /\ hs'[n].log = Append(hs[n].log, "DoRescale")

\* C29: with a rescale factor set, the Rescale step multiplies the
\* correlation-axis edges of every exposed artifact binned over that axis by
\* the factor and leaves bin contents and variances as they were
C29_RescaleRelabelsAll ==
    [][\A n \in {"outer", "nested"} :
         RescaleStepOf(n) =>
           \A m \in KstarMembers :
             ~IsNone(hs[n][m]) =>
               Relabelled(hs[n][m], hs'[n][m], hs[n].rescale_kstar)]_vars

(***************************************************************************)
(* C21, C22, C27, C28: the sweep driver                                    *)
(***************************************************************************)
\* the results a SteerAnalysis call has so far, by position
ResultsSoFar == IF parallel THEN futures ELSE _output_path_list
Results == {r \in {ResultsSoFar[i] : i \in DOMAIN ResultsSoFar} : IsFile(r)}
InCall == steer \in {"loop", "run", "collected", "merged"}
ConfigOfPath(f) == _config_list[f.path[2] + 1]

\* C21: in a first SteerAnalysis call every configuration is processed by
\* one pipeline and result i belongs to configuration i, in sequential mode
\* and in parallel mode whatever the order in which the workers finish; a
\* result depends on its configuration only, so both modes give one list
C21_ResultsInConfigurationOrder ==
    calls = 1 =>
      /\ steer = "run" =>
           /\ args.rebin_kstar = _config_list[index + 1].Rebin
           /\ args.ranges = RangesOf(_config_list[index + 1])
      /\ \A i \in DOMAIN processed : processed[i] <= 1
      /\ \A i \in DOMAIN ResultsSoFar :
           IsFile(ResultsSoFar[i]) =>
             /\ processed[i] = 1
             /\ ResultsSoFar[i].path = <<1, i - 1>>
             /\ ResultsSoFar[i].dir = _config_list[i].Name
      /\ \A i \in DOMAIN _output_path_list :
           /\ _output_path_list[i].path = <<1, i - 1>>
           /\ _output_path_list[i].dir = _config_list[i].Name
      /\ \A i, j \in DOMAIN ResultsSoFar :
           (/\ IsFile(ResultsSoFar[i]) /\ IsFile(ResultsSoFar[j])
            /\ _config_list[i] = _config_list[j])
             => ResultsSoFar[i].tree = ResultsSoFar[j].tree
      /\ steer \in {"collected", "merged", "start"} =>
           /\ Len(_output_path_list) = Len(_config_list)
           /\ \A i \in DOMAIN processed : processed[i] = 1

\* a parallel first call of six configurations has merged its results; the
\* worker that finished last was not the one of the last configuration
C21_Witness ==
    /\ calls = 1 /\ parallel /\ workers = 2 /\ steer = "merged"
    /\ Len(_output_path_list) = 6
    /\ index # 5
    /\ \A i \in 1 .. 6 : _output_path_list[i].path = <<1, i - 1>>

\* C22: when the pipeline of a configuration fails in a sweep in which
\* another configuration has its result, the sweep does not end in one overall
\* failure: every configuration has been processed and has an outcome, and the
\* results of the configurations that did not fail are kept and merged
C22_FailureIsPerConfiguration ==
    (steer \in {"failed", "merged"} /\ Results # {}) =>
      /\ \A i \in DOMAIN processed : processed[i] = 1
      /\ merged.written
      /\ \A r \in Results : r.path \in UNION {merged.dirs[n] : n \in DOMAIN merged.dirs}

\* C27: after any number of SteerAnalysis calls the configuration list is the
\* product a single call generates, and the list the last call merges has one
\* entry per configuration, each a file written during that call
C27_SweepRepeatable ==
    calls >= 1 =>
      /\ _config_list = _GenerateConfigurations(_range_list, _rebin_list)
      /\ steer = "merged" =>
           /\ Len(_output_path_list)
                = Len(_GenerateConfigurations(_range_list, _rebin_list))
           /\ \A i \in DOMAIN _output_path_list :
                _output_path_list[i].path[1] = calls

\* C28: the merge starts only after the pipeline of every configuration has
\* finished and its file is written and closed, every configuration has a
\* file path of its own, and the merge is complete before the temporary
\* directory is removed
C28_MergeAfterAllWritten ==
    /\ steer \in {"collected", "merged"} =>
         /\ tmp_dir.exists
         /\ hs["outer"].pc = "Saved"
         /\ \A i \in DOMAIN _config_list :
              /\ processed[i] >= 1
              /\ <<calls, i - 1>> \in tmp_dir.files
              /\ \E k \in DOMAIN _output_path_list :
                   /\ _output_path_list[k].path = <<calls, i - 1>>
                   /\ _output_path_list[k].dir = _config_list[i].Name
    /\ InCall =>
         /\ tmp_dir.exists /\ tmp_dir.id = calls
         /\ Cardinality(tmp_dir.files) = Cardinality(Results \cap {r \in Results : r.path[1] = calls})
         /\ \A r \in Results : r.path[1] = calls => (r.path \in tmp_dir.files /\ r.dir = ConfigOfPath(r).Name)
    /\ (steer = "merged" \/ (steer = "start" /\ calls >= 1)) =>
         /\ merged.written
         /\ \A i \in DOMAIN _config_list :
              <<calls, i - 1>> \in merged.dirs[_config_list[i].Name]
    /\ (steer = "start" /\ calls >= 1) => ~tmp_dir.exists
    /\ ~tmp_dir.exists => steer \in {"start", "failed"}

\* the second call, sequential, has merged the twelve files it wrote
C28_Witness ==
    /\ calls = 2 /\ ~parallel /\ steer = "merged" /\ tmp_dir.exists
    /\ Cardinality(tmp_dir.files) = 12
    /\ Cardinality(merged.dirs[_config_list[12].Name]) = 2

(***************************************************************************)
(* C30: FemtoMerger.merge                                                  *)
(***************************************************************************)
\* C30: the copies complete in any order, yet the file list hadd is started
\* with holds at every position i the temporary copy of inputs[i]; hadd
\* starts only after every copy has completed, never when a copy failed, and
\* nothing is copied or merged when the output exists and overwrite is off
C30_MergeListInInputOrder ==
    /\ \A i \in DOMAIN tmp_inputs :
         tmp_inputs[i] # NoTmpFile =>
           (tmp_inputs[i] = TmpFile(i - 1) /\ copies[i].state = "done")
    /\ merge = "merged" =>
         /\ Len(hadd) = Len(inputs)
         /\ \A i \in DOMAIN inputs :
              /\ hadd[i] = TmpFile(i - 1)
              /\ copies[i].state = "done"
              /\ inputs[i] = "good"
    /\ merge # "merged" => (hadd = <<>> /\ ~out_file.written)
    /\ (\E i \in DOMAIN inputs : inputs[i] # "good") => merge # "merged"
    /\ (out_file.exists /\ ~out_file.written /\ ~overwrite) =>
         (merge \in {"called", "skipped"} /\ copies = <<>> /\ tmp_inputs = <<>>)
    /\ merge = "skipped" => (out_file.exists /\ ~overwrite)

\* three inputs merged, the copy of the last input taken first
C30_Witness ==
    /\ merge = "merged"
    /\ Len(inputs) = 3
    /\ order = <<2, 0, 1>>
    /\ hadd = <<TmpFile(0), TmpFile(1), TmpFile(2)>>

====
